---- MODULE Spec2Model ----
(***************************************************************************)
(* Model of the lex-learning training orchestration engine:                 *)
(*   pipeline/orchestrator.py  Pipeline.train, Pipeline._build_result       *)
(*   pipeline/stages.py        the seven stages                             *)
(*   training/selector.py      DatasetInfo, select_algorithms                *)
(*   training/trainer.py       train_models, train_single_model              *)
(*   training/optimizer.py     optimize_hyperparameters                      *)
(*   progress/reporter.py      ProgressUpdate, reporters                     *)
(*                                                                         *)
(*   pipeline/orchestrator.py  Pipeline.create_trained_model                *)
(*   explainability/explainer.py  explain_model                             *)
(*   config.py                 PipelineConfig                               *)
(*                                                                         *)
(* Eleven specifications share the module:                                 *)
(*   Spec     one run of Pipeline.train over one PipelineContext            *)
(*   SelSpec  select_algorithms applied to bounded arbitrary inputs         *)
(*   ValSpec  Pipeline.train up to the end of ValidationStage               *)
(*   CtmSpec  Pipeline.create_trained_model on bounded TrainingResults      *)
(*   OptSpec  optimize_hyperparameters, trial by trial                      *)
(*   RegSpec  Pipeline.train up to the end of ModelTrainingStage, on any    *)
(*            leading part of the list of available algorithms              *)
(*   StgSpec  the stages executed on contexts with unset fields             *)
(*   OvfSpec  _assess_overfitting on bounded pairs of scores                *)
(*   TwoSpec  two interleaved runs of Pipeline.train                        *)
(*   StepSpec the first four stages executed one by one, a stage possibly   *)
(*            twice, on frames at the thresholds of DatasetInfo             *)
(*   EvalSpec Pipeline.train from EvaluationStage on, the ModelResult       *)
(*            carrying its train and cross-validation scores                *)
(***************************************************************************)
EXTENDS Integers, Sequences, FiniteSets, TLC

(***************************************************************************)
(* Bounds of the model.                                                    *)
(***************************************************************************)
\* largest top_k_algorithms drawn for a configuration
MaxTopK == 2
\* largest n_trials drawn for a configuration
MaxTrials == 2
\* test scores are drawn from 1..MaxScore (a score s stands for s/MaxScore)
MaxScore == 2
\* longest available_algorithms list handed to select_algorithms in SelSpec
MaxAvail == 3

(***************************************************************************)
(* Generic sequence helpers.                                               *)
(***************************************************************************)
Range(s) == {s[k] : k \in 1..Len(s)}

\* Python: x in list
In(x, s) == \E k \in 1..Len(s) : s[k] = x

\* position of the first occurrence of x in s, 0 when absent
IndexOf(x, s) == IF In(x, s) THEN CHOOSE k \in 1..Len(s) : s[k] = x /\ \A j \in 1..(k-1) : s[j] # x ELSE 0

\* all sequences over S of length at most n
RECURSIVE SeqsUpTo(_, _)
SeqsUpTo(S, n) == IF n = 0 THEN {<<>>} ELSE LET shorter == SeqsUpTo(S, n - 1) IN shorter \cup {Append(s, x) : s \in shorter, x \in S}

(***************************************************************************)
(* training/selector.py                                                    *)
(***************************************************************************)
CLASSIFICATION_PRIORITIES == [
    small  |-> <<"logistic_regression", "decision_tree", "knn", "random_forest", "gradient_boosting">>,
    medium |-> <<"random_forest", "xgboost", "gradient_boosting", "logistic_regression", "lightgbm", "extra_trees">>,
    large  |-> <<"lightgbm", "xgboost", "random_forest", "neural_network", "gradient_boosting", "extra_trees">>]

REGRESSION_PRIORITIES == [
    small  |-> <<"ridge", "decision_tree", "knn", "random_forest", "gradient_boosting">>,
    medium |-> <<"random_forest", "xgboost", "gradient_boosting", "ridge", "lightgbm", "extra_trees">>,
    large  |-> <<"lightgbm", "xgboost", "random_forest", "neural_network", "gradient_boosting", "extra_trees">>]

\* DatasetInfo.size_category
size_category(info) == IF info.n_samples < 1000 THEN "small" ELSE IF info.n_samples < 10000 THEN "medium" ELSE "large"

\* DatasetInfo.is_high_dimensional: n_features > 100 or n_features > n_samples * 0.5
is_high_dimensional(info) == info.n_features > 100 \/ 2 * info.n_features > info.n_samples

\* the local list tree_models of select_algorithms
tree_models == <<"random_forest", "extra_trees", "xgboost", "lightgbm", "gradient_boosting">>

\* priority list looked up by problem type and size category (selector.py 107-110)
base_priority_list(info) == IF info.problem_type = "classification" THEN CLASSIFICATION_PRIORITIES[size_category(info)] ELSE REGRESSION_PRIORITIES[size_category(info)]

\* a plausible slip: the tree names are filtered out of the priority list (keeps their order)
reorder_high_dim_stable(plist) == SelectSeq(plist, LAMBDA m : In(m, tree_models)) \o SelectSeq(plist, LAMBDA m : ~In(m, tree_models))

\* selector.py 123-125: [m for m in tree_models if m in priority_list] + [m for m in priority_list if m not in tree_models]
reorder_high_dim(plist) == SelectSeq(tree_models, LAMBDA m : In(m, plist)) \o SelectSeq(plist, LAMBDA m : ~In(m, tree_models))

\* the priority list the selection loop walks (selector.py 107-125)
priority_list(info) == IF is_high_dimensional(info) THEN reorder_high_dim(base_priority_list(info)) ELSE base_priority_list(info)

\* available_set after set(available_algorithms) and discard("neural_network") (selector.py 113-117)
available_set(available_algorithms, include_neural) == IF include_neural THEN Range(available_algorithms) ELSE Range(available_algorithms) \ {"neural_network"}

\* first loop (selector.py 128-133), from position k of plist on
RECURSIVE priority_loop(_, _, _, _, _)
priority_loop(plist, k, selected, avail, top_k) ==
    IF k > Len(plist) THEN selected
    ELSE IF plist[k] \in avail /\ ~In(plist[k], selected)
         THEN LET s2 == Append(selected, plist[k]) IN IF Len(s2) >= top_k THEN s2 ELSE priority_loop(plist, k + 1, s2, avail, top_k)
         ELSE priority_loop(plist, k + 1, selected, avail, top_k)

\* a plausible slip: the fill-up loop forgets the neural-network exclusion
RECURSIVE fill_loop_no_neural_check(_, _, _, _, _)
fill_loop_no_neural_check(alist, k, selected, include_neural, top_k) ==
    IF k > Len(alist) THEN selected
    ELSE IF ~In(alist[k], selected)
         THEN LET s2 == Append(selected, alist[k]) IN IF Len(s2) >= top_k THEN s2 ELSE fill_loop_no_neural_check(alist, k + 1, s2, include_neural, top_k)
         ELSE fill_loop_no_neural_check(alist, k + 1, selected, include_neural, top_k)

\* a plausible slip: the fill-up loop appends a name without looking whether it is already selected
RECURSIVE fill_loop_no_dedup(_, _, _, _, _)
fill_loop_no_dedup(alist, k, selected, include_neural, top_k) ==
    IF k > Len(alist) THEN selected
    ELSE IF include_neural \/ alist[k] # "neural_network"
         THEN LET s2 == Append(selected, alist[k]) IN IF Len(s2) >= top_k THEN s2 ELSE fill_loop_no_dedup(alist, k + 1, s2, include_neural, top_k)
         ELSE fill_loop_no_dedup(alist, k + 1, selected, include_neural, top_k)

\* second loop (selector.py 137-141), from position k of available_algorithms on
RECURSIVE fill_loop(_, _, _, _, _)
fill_loop(alist, k, selected, include_neural, top_k) ==
    IF k > Len(alist) THEN selected
    ELSE IF ~In(alist[k], selected) /\ (include_neural \/ alist[k] # "neural_network")
         THEN LET s2 == Append(selected, alist[k]) IN IF Len(s2) >= top_k THEN s2 ELSE fill_loop(alist, k + 1, s2, include_neural, top_k)
         ELSE fill_loop(alist, k + 1, selected, include_neural, top_k)

\* a plausible slip: the available list is walked first and the priority list fills up
select_algorithms_available_first(info, available_algorithms, top_k, include_neural) ==
    LET selected == fill_loop(available_algorithms, 1, <<>>, include_neural, top_k)
    IN  IF Len(selected) < top_k THEN priority_loop(priority_list(info), 1, selected, available_set(available_algorithms, include_neural), top_k) ELSE selected

\* select_algorithms (selector.py 89-143)
select_algorithms(info, available_algorithms, top_k, include_neural) ==
    LET selected == priority_loop(priority_list(info), 1, <<>>, available_set(available_algorithms, include_neural), top_k)
    IN  IF Len(selected) < top_k THEN fill_loop(available_algorithms, 1, selected, include_neural, top_k) ELSE selected

(***************************************************************************)
(* models/__init__.py, models/sklearn_models.py, boosting.py, neural.py    *)
(***************************************************************************)
\* names of SKLEARN_MODELS in insertion order (sklearn_models.py 108-180)
SKLEARN_MODELS == <<"logistic_regression", "linear_regression", "ridge", "lasso", "decision_tree", "random_forest", "gradient_boosting", "extra_trees", "knn", "svm", "svr">>

\* optional registry entries, present when their library imports (boosting.py 86-112, neural.py 244-260)
OPTIONAL_MODELS == <<"xgboost", "lightgbm", "neural_network">>

\* the key order of _ALL_MODELS for a given set of importable optional libraries
ALL_MODELS(libs) == SKLEARN_MODELS \o SelectSeq(OPTIONAL_MODELS, LAMBDA m : m \in libs)

\* the "problem_types" entry of a registered model
problem_types(name) ==
    IF name \in {"logistic_regression", "svm"} THEN {"classification"}
    ELSE IF name \in {"linear_regression", "ridge", "lasso", "svr"} THEN {"regression"}
    ELSE {"classification", "regression"}

\* get_available_algorithms (models/__init__.py 26-39)
get_available_algorithms(libs, problem_type) == SelectSeq(ALL_MODELS(libs), LAMBDA m : problem_type \in problem_types(m))

\* create_model raises ValueError for an unknown name or an unsupported problem type (models/__init__.py 64-74)
create_model_raises(libs, name, problem_type) == ~In(name, ALL_MODELS(libs)) \/ problem_type \notin problem_types(name)

(***************************************************************************)
(* State of one run of Pipeline.train.                                     *)
(***************************************************************************)
VARIABLES
    config,              \* PipelineConfig of the Pipeline
    data,                \* the DataFrame handed to train, abstracted to what the stages inspect
    installed,           \* optional libraries importable in this environment
    cancellation_check,  \* whether the run's reporter carries a cancellation check
    pc,                  \* position of the run
    stage_idx,           \* index into the stage list of the next stage to execute
    executed,            \* history: stages whose execute was entered, with how each ended
    events,              \* ProgressUpdates delivered to the reporter, in order
    context,             \* PipelineContext
    train,               \* locals of train_models / train_single_model / optimize_hyperparameters
    outcome,             \* "running", "returned", "Failed" or "Cancelled"
    error,               \* the exception re-raised by Pipeline.train
    result,              \* the TrainingResult returned by Pipeline.train
    polls,               \* history: calls of reporter.is_cancelled() so far, and the site and answer of the latest
    err_log,             \* history: the exception that ended each algorithm's training sequence
    calls,               \* history: number of calls of the external operations of the run, and the DatasetInfo built
    sel,                 \* SelSpec: one call of select_algorithms
    trained_model,       \* CtmSpec: the TrainedModel made by one call of create_trained_model
    opt,                 \* OptSpec: the locals of one call of optimize_hyperparameters
    ovf,                 \* OvfSpec: the arguments, the gap and the result of one call of _assess_overfitting
    other                \* TwoSpec: the suspended one of two runs of Pipeline.train: its arguments and locals

vars == <<config, data, installed, cancellation_check, pc, stage_idx, executed, events, context, train, outcome, error, result, polls, err_log, calls, sel, trained_model, opt, ovf, other>>

run_vars == <<config, data, installed, cancellation_check, pc, stage_idx, executed, events, context, train, outcome, error, result, polls, err_log, calls, trained_model, opt, ovf, other>>

(***************************************************************************)
(* Inputs of a run.                                                        *)
(***************************************************************************)
\* values of PipelineConfig.algorithm: none, a registered name, an unregistered name
ForcedAlgorithms == {"None", "knn", "no_such_algorithm"}

\* PipelineConfig values that pass __post_init__ (config.py 54-65); n_trials is held at one value
\* when the hyperparameters are not optimized, and target_column is left at its default
Configs == {c \in [problem_type : {"classification", "regression"},
                   target_column : {"None"},
                   algorithm : ForcedAlgorithms,
                   top_k_algorithms : 1..MaxTopK,
                   optimize_hyperparams : BOOLEAN,
                   n_trials : 1..MaxTrials,
                   enable_neural_networks : BOOLEAN,
                   enable_explainability : BOOLEAN] :
              /\ (~c.optimize_hyperparams => c.n_trials = 1)}

\* percentage form of PipelineConfig.test_size (default 0.2, config.py 47)
test_size_pct == 20

\* PipelineConfig.cv_folds and PipelineConfig.shap_max_samples at their defaults (config.py 46, 50)
cv_folds == 5
shap_max_samples == 100

\* PipelineConfig.__post_init__ raises ValueError (config.py 54-65); test_size is held as a percentage
post_init_raises(c) ==
    \/ c.top_k_algorithms < 1
    \/ c.n_trials < 1
    \/ c.cv_folds < 2
    \/ ~(0 < c.test_size_pct /\ c.test_size_pct < 100)
    \/ c.shap_max_samples < 1

\* the five validated fields of the PipelineConfig of the run
validated_fields == [top_k_algorithms |-> config.top_k_algorithms, n_trials |-> config.n_trials, cv_folds |-> cv_folds, test_size_pct |-> test_size_pct, shap_max_samples |-> shap_max_samples]

\* (row count, transformed feature count) of the input data: too few rows; small; small once split and
\* high-dimensional; large
DataShapes == {<<5, 2>>, <<40, 2>>, <<1200, 150>>, <<15000, 2>>}

\* a column label of a DataFrame: pandas keeps labels as Python objects, and the string "1" and the
\* integer 1 are different labels
StrLabel(t) == [type |-> "str", text |-> t]
IntLabel(t) == [type |-> "int", text |-> t]
NoLabel == [type |-> "None", text |-> "None"]

\* Python str(label): the text of the label, as a string
str(label) == [type |-> "str", text |-> label.text]

\* column lists of the input frames: named columns (read from a file with a header), numbered columns
\* (a frame built from an array, labelled 0, 1, ...), and a frame without columns
NamedColumns == <<StrLabel("feature"), StrLabel("target")>>
NumberedColumns == <<IntLabel("0"), IntLabel("1")>>
NoColumns == <<>>

\* input data: whether a frame was passed, its column labels, whether any cell is null, its row count
\* and its (transformed) feature count
DataSets == {d \in [provided : BOOLEAN, columns : {NamedColumns, NumberedColumns}, has_null : BOOLEAN, n_rows : {sh[1] : sh \in DataShapes}, n_features : {sh[2] : sh \in DataShapes}] :
              /\ <<d.n_rows, d.n_features>> \in DataShapes
              /\ (~d.provided => d.columns = NamedColumns /\ ~d.has_null /\ d.n_rows = 40)
              /\ (d.columns # NamedColumns \/ d.has_null => d.n_rows \in {5, 40})}

\* environments: no optional library, or all of them
InstallProfiles == {{}, {"xgboost", "lightgbm", "neural_network"}}

\* test scores an estimator can reach
Scores == 1..MaxScore

(***************************************************************************)
(* progress/reporter.py                                                    *)
(***************************************************************************)
\* progress fractions are held as integers in units of 1/1200, so that 0.65 * i / n is exact for n <= 6
Unit == 12 * 100
Pct(p) == p * 12

\* ProgressUpdate (reporter.py 29-45); models_completed is <<>> for None; message is <<>> for the fixed
\* texts of the stages and holds the parts of the text for the events of the except clauses
ProgressUpdate(stage, progress, current_model, models_completed) == [stage |-> stage, progress |-> progress, current_model |-> current_model, models_completed |-> models_completed, message |-> <<>>]

\* reporter.report appends to the delivered sequence (reporter.py 99-102)
report(evs, stage, progress) == Append(evs, ProgressUpdate(stage, progress, "None", <<>>))

(***************************************************************************)
(* core/protocols.py PipelineContext                                       *)
(***************************************************************************)
NoEstimator == [algo |-> "None", id |-> 0, score |-> 0]
NoMetrics == [test_score |-> 0, cv_score |-> 0, train_score |-> 0]

\* a fresh PipelineContext (protocols.py 23-67); isset is the set of fields that are not None
NewContext == [isset |-> {},
               target_column |-> "None",
               n_train |-> 0,
               n_features |-> 0,
               algorithms |-> <<>>,
               model |-> NoEstimator,
               model_results |-> <<>>,
               metrics |-> NoMetrics,
               explainability |-> "None"]

NewTrain == [i |-> 0, results |-> <<>>, models |-> <<>>, failures |-> <<>>, t |-> 0, study |-> <<>>]
NoPolls == [iteration |-> 0, trial |-> 0, last |-> "None", cancelled |-> FALSE]
NoDatasetInfo == [n_samples |-> 0, n_features |-> 0, problem_type |-> "None"]
NoCalls == [explain_model |-> 0, attribution |-> "None", dataset_info |-> NoDatasetInfo]
NoError == [type |-> "None", message |-> "None", failures |-> <<>>, column |-> NoLabel, available |-> <<>>]
NoResult == [success |-> FALSE, best_model_name |-> "None", metrics |-> NoMetrics, model_comparison |-> <<>>, explainability |-> "None", model |-> NoEstimator,
             preprocessor |-> "None", feature_names |-> <<>>, class_labels |-> <<>>, problem_type |-> "None", target_column |-> "None"]
NoBestModel == [fresh |-> FALSE, fitted |-> FALSE, params_of |-> 0, applied |-> {}]
NoOpt == [t |-> 0, study |-> <<>>, nonlocal_best_params |-> 0, outcome |-> "running", best_trial |-> 0, best_params |-> 0, best_model |-> NoBestModel]
NoGap == [hundredths |-> 0, rounded |-> 0]
NoOvf == [called |-> FALSE, train_score |-> 0, test_score |-> 0, gap |-> NoGap, risk |-> "None"]
NoOther == [id |-> 0]
NoHyperparameters == [algorithm |-> "None", source |-> "None"]
NoTrainedModel == [called |-> FALSE, model |-> NoEstimator, preprocessor |-> "None", problem_type |-> "None", target_column |-> "None", feature_names |-> <<>>,
                   class_labels |-> <<>>, metrics |-> NoMetrics, best_model_name |-> "None", explainability |-> "None", hyperparameters |-> NoHyperparameters]
NoSel == [called |-> FALSE, info |-> [n_samples |-> 0, n_features |-> 0, problem_type |-> "classification"], available |-> <<>>, top_k |-> 1, include_neural |-> TRUE, priority |-> <<>>, selected |-> <<>>]

Init ==
    /\ config \in Configs
    /\ data \in DataSets
    /\ installed \in InstallProfiles
    /\ cancellation_check \in BOOLEAN
    /\ pc = "start"
    /\ stage_idx = 1
    /\ executed = <<>>
    /\ events = <<>>
    /\ context = NewContext
    /\ train = NewTrain
    /\ outcome = "running"
    /\ error = NoError
    /\ result = NoResult
    /\ polls = NoPolls
    /\ err_log = <<>>
    /\ calls = NoCalls
    /\ sel = NoSel
    /\ trained_model = NoTrainedModel
    /\ opt = NoOpt
    /\ ovf = NoOvf
    /\ other = NoOther

(***************************************************************************)
(* pipeline/orchestrator.py: the stage list and the exception handlers     *)
(***************************************************************************)
\* a plausible slip: SplitStage listed before PreprocessingStage
stages_split_first == <<"ValidationStage", "SplitStage", "PreprocessingStage", "AlgorithmSelectionStage", "ModelTrainingStage", "EvaluationStage", "ExplainabilityStage">>

\* Pipeline._stages (orchestrator.py 82-90)
stages == <<"ValidationStage", "PreprocessingStage", "SplitStage", "AlgorithmSelectionStage", "ModelTrainingStage", "EvaluationStage", "ExplainabilityStage">>

\* the loop "for stage in self._stages" is about to call execute of the named stage (orchestrator.py 127-128)
AtStage(name) == pc = "stage" /\ stage_idx <= Len(stages) /\ stages[stage_idx] = name

\* history of stage executions
Entered(name, status) == Append(executed, [stage |-> name, status |-> status])
Ended(status) == [executed EXCEPT ![Len(executed)].status = status]

\* a plausible slip: "except Exception" listed first, so that it also takes CancelledError
except_clause_generic_first(type) == "Failed"

\* which except clause of Pipeline.train takes an exception (orchestrator.py 137-142)
except_clause(type) == IF type = "CancelledError" THEN "Cancelled" ELSE "Failed"

\* the TrainingStage value each except clause reports (orchestrator.py 138, 141)
terminal_stage(clause) == IF clause = "Cancelled" THEN "cancelled" ELSE "failed"

\* a plausible slip: the Failed event carries a fixed text
failed_message_fixed(err) == <<"Training failed">>

\* f"Training failed: {e}" (orchestrator.py 141)
failed_message(err) == <<"Training failed: ", err.message>>

\* the message each except clause reports (orchestrator.py 138, 141)
terminal_message(clause, err) == IF clause = "Cancelled" THEN <<"Training cancelled">> ELSE failed_message(err)

\* a plausible slip: the except clauses report at the fraction the run had reached
report_terminal_at_last_fraction(evs, err) == Append(evs, [ProgressUpdate(terminal_stage(except_clause(err.type)), evs[Len(evs)].progress, "None", <<>>) EXCEPT !.message = terminal_message(except_clause(err.type), err)])

\* self._report(stage, 0.0, message) of an except clause (orchestrator.py 138, 141, 144-152)
report_terminal(evs, err) == Append(evs, [ProgressUpdate(terminal_stage(except_clause(err.type)), 0, "None", <<>>) EXCEPT !.message = terminal_message(except_clause(err.type), err)])

\* an exception leaves Pipeline.train: the matching except clause reports at 0.0 and re-raises (orchestrator.py 137-142)
RaiseError(evs, exec, err) ==
    /\ events' = report_terminal(evs, err)
    /\ executed' = exec
    /\ pc' = "finished"
    /\ outcome' = except_clause(err.type)
    /\ error' = err

\* the same, for an exception that carries a message and, for TrainingFailedError, the failure map
Raise(evs, exec, type, message, fmap) == RaiseError(evs, exec, [type |-> type, message |-> message, failures |-> fmap, column |-> NoLabel, available |-> <<>>])

\* TargetNotFoundError(column, available) (errors.py 28-34)
TargetNotFoundError(column, available) == [type |-> "TargetNotFoundError", message |-> "Target column not found", failures |-> <<>>, column |-> column, available |-> available]

\* a stage returns its context and the loop moves on (orchestrator.py 127-128)
Return(evs, exec, ctx) ==
    /\ events' = evs
    /\ executed' = exec
    /\ context' = ctx
    /\ stage_idx' = stage_idx + 1
    /\ UNCHANGED <<pc, outcome, error>>

\* Pipeline.train up to the stage loop (orchestrator.py 113-124)
TrainStart ==
    /\ pc = "start"
    /\ events' = report(events, "initializing", 0)
    /\ context' = NewContext
    /\ pc' = "stage"
    /\ UNCHANGED <<config, data, installed, cancellation_check, calls, stage_idx, executed, train, outcome, error, result, polls, err_log, sel, trained_model, opt, ovf, other>>

(***************************************************************************)
(* pipeline/stages.py                                                      *)
(***************************************************************************)
\* the local target_column of ValidationStage.execute (stages.py 67-69): the configured name, else
\* str(data.columns[-1])
target_column == IF config.target_column # "None" THEN StrLabel(config.target_column) ELSE str(data.columns[Len(data.columns)])

\* a plausible slip: the cheap row count is tested before the cells are scanned for nulls
validation_error_rows_first(target_present, has_null, n_rows) ==
    IF ~target_present THEN "target"
    ELSE IF n_rows < 10 THEN "rows"
    ELSE IF has_null THEN "nulls"
    ELSE "None"

\* the checks of ValidationStage.execute in their order (stages.py 71-82): the first that fails raises
validation_error(target_present, has_null, n_rows) ==
    IF ~target_present THEN "target"
    ELSE IF has_null THEN "nulls"
    ELSE IF n_rows < 10 THEN "rows"
    ELSE "None"

\* a plausible slip: context.target_column is assigned where the name is resolved, before the checks
validation_writes_target_first(status) == IF status = "returned" THEN {"X", "y", "target_column"} ELSE {"target_column"}

\* the fields ValidationStage.execute has assigned when it leaves: the three assignments follow the last
\* check (stages.py 84-87)
validation_writes(status) == IF status = "returned" THEN {"X", "y", "target_column"} ELSE {}

\* ValidationStage.execute (stages.py 51-89)
ValidationStage ==
    /\ AtStage("ValidationStage")
    /\ LET evs == report(events, "preprocessing", Pct(5)) IN
       IF ~data.provided
       THEN Raise(evs, Entered("ValidationStage", "raised"), "InvalidDataError", "No data provided to pipeline", <<>>) /\ context' = [context EXCEPT !.isset = @ \cup validation_writes("raised")] /\ UNCHANGED stage_idx
       ELSE IF config.target_column = "None" /\ data.columns = <<>>
       THEN Raise(evs, Entered("ValidationStage", "raised"), "IndexError", "index -1 is out of bounds", <<>>) /\ context' = [context EXCEPT !.isset = @ \cup validation_writes("raised")] /\ UNCHANGED stage_idx
       ELSE IF validation_error(In(target_column, data.columns), data.has_null, data.n_rows) = "target"
       THEN RaiseError(evs, Entered("ValidationStage", "raised"), TargetNotFoundError(target_column, data.columns)) /\ context' = [context EXCEPT !.isset = @ \cup validation_writes("raised")] /\ UNCHANGED stage_idx
       ELSE IF validation_error(In(target_column, data.columns), data.has_null, data.n_rows) = "nulls"
       THEN Raise(evs, Entered("ValidationStage", "raised"), "InvalidDataError", "Data contains null values", <<>>) /\ context' = [context EXCEPT !.isset = @ \cup validation_writes("raised")] /\ UNCHANGED stage_idx
       ELSE IF validation_error(In(target_column, data.columns), data.has_null, data.n_rows) = "rows"
       THEN Raise(evs, Entered("ValidationStage", "raised"), "InvalidDataError", "Data must have at least 10 samples", <<>>) /\ context' = [context EXCEPT !.isset = @ \cup validation_writes("raised")] /\ UNCHANGED stage_idx
       ELSE Return(evs, Entered("ValidationStage", "returned"), [context EXCEPT !.isset = @ \cup validation_writes("returned"), !.target_column = target_column.text])
    /\ UNCHANGED <<config, data, installed, cancellation_check, calls, train, result, polls, err_log, sel, trained_model, opt, ovf, other>>

\* PreprocessingStage.execute (stages.py 103-124); Preprocessor.fit_transform is external and may raise
PreprocessingStage ==
    /\ AtStage("PreprocessingStage")
    /\ LET evs == report(events, "preprocessing", Pct(8)) IN
       IF ~({"X", "y"} \subseteq context.isset)
       THEN Raise(evs, Entered("PreprocessingStage", "raised"), "InvalidDataError", "Validation stage must run before preprocessing", <<>>) /\ UNCHANGED <<context, stage_idx>>
       ELSE \E ok \in BOOLEAN :
            IF ~ok
            THEN Raise(evs, Entered("PreprocessingStage", "raised"), "Exception", "fit_transform failed", <<>>) /\ UNCHANGED <<context, stage_idx>>
            ELSE Return(evs, Entered("PreprocessingStage", "returned"), [context EXCEPT !.isset = @ \cup {"preprocessor", "_X_transformed", "_y_transformed"}])
    /\ UNCHANGED <<config, data, installed, cancellation_check, calls, train, result, polls, err_log, sel, trained_model, opt, ovf, other>>

\* sklearn train_test_split with a float test_size: n_test = ceil(test_size * n), n_train = n - n_test
n_train_of(n_rows) == n_rows - ((n_rows * test_size_pct + 99) \div 100)

\* a plausible slip: the temporary attributes are left on the context
split_cleanup_kept(isset) == isset

\* "Clean up temporary attributes" (stages.py 167-171)
split_cleanup(isset) == isset \ {"_X_transformed", "_y_transformed"}

\* SplitStage.execute (stages.py 135-173); train_test_split is external and may raise
SplitStage ==
    /\ AtStage("SplitStage")
    /\ LET evs == report(events, "preprocessing", Pct(10)) IN
       IF ~({"_X_transformed", "_y_transformed"} \subseteq context.isset)
       THEN Raise(evs, Entered("SplitStage", "raised"), "InvalidDataError", "Preprocessing stage must run before split", <<>>) /\ UNCHANGED <<context, stage_idx>>
       ELSE \E ok \in BOOLEAN :
            IF ~ok
            THEN Raise(evs, Entered("SplitStage", "raised"), "Exception", "train_test_split failed", <<>>) /\ UNCHANGED <<context, stage_idx>>
            ELSE Return(evs, Entered("SplitStage", "returned"),
                        [context EXCEPT !.isset = split_cleanup(@ \cup {"X_train", "X_test", "y_train", "y_test"}),
                                        !.n_train = n_train_of(data.n_rows),
                                        !.n_features = data.n_features])
    /\ UNCHANGED <<config, data, installed, cancellation_check, calls, train, result, polls, err_log, sel, trained_model, opt, ovf, other>>

\* the available list AlgorithmSelectionStage hands to select_algorithms (stages.py 204-208)
stage_available == IF config.enable_neural_networks
                   THEN get_available_algorithms(installed, config.problem_type)
                   ELSE SelectSeq(get_available_algorithms(installed, config.problem_type), LAMBDA a : a # "neural_network")

\* a plausible slip: the DatasetInfo is built from the rows of the whole input frame
stage_dataset_info_full_data == [n_samples |-> data.n_rows, n_features |-> context.n_features, problem_type |-> config.problem_type]

\* the DatasetInfo built from the training split (stages.py 211-221)
stage_dataset_info == [n_samples |-> context.n_train, n_features |-> context.n_features, problem_type |-> config.problem_type]

\* a plausible slip: the requested algorithm goes through the registry and the neural-network setting
forced_selection_filtered(cfg) == SelectSeq(<<cfg.algorithm>>, LAMBDA a : In(a, stage_available))

\* context.algorithms = [context.config.algorithm] (stages.py 199-201)
forced_selection(cfg) == <<cfg.algorithm>>

\* AlgorithmSelectionStage.execute (stages.py 185-231), for the list that get_available_algorithms and the
\* neural-network filter give it
AlgorithmSelectionStageOn(available) ==
    /\ AtStage("AlgorithmSelectionStage")
    /\ LET evs == report(events, "algorithm_selection", Pct(15)) IN
       IF ~({"X_train", "y_train"} \subseteq context.isset)
       THEN Raise(evs, Entered("AlgorithmSelectionStage", "raised"), "InvalidDataError", "Split stage must run before algorithm selection", <<>>) /\ UNCHANGED <<context, stage_idx>>
       ELSE IF config.algorithm # "None"
       THEN Return(evs, Entered("AlgorithmSelectionStage", "returned"), [context EXCEPT !.isset = @ \cup {"algorithms"}, !.algorithms = forced_selection(config)])
       ELSE Return(evs, Entered("AlgorithmSelectionStage", "returned"),
                   [context EXCEPT !.isset = @ \cup {"algorithms"},
                                   !.algorithms = select_algorithms(stage_dataset_info, available, config.top_k_algorithms, config.enable_neural_networks)])
    /\ calls' = IF {"X_train", "y_train"} \subseteq context.isset /\ config.algorithm = "None"
                THEN [calls EXCEPT !.dataset_info = stage_dataset_info]
                ELSE calls
    /\ UNCHANGED <<config, data, installed, cancellation_check, train, result, polls, err_log, sel, trained_model, opt, ovf, other>>

\* the stage in the program: the list comes from the registry of the installed models
AlgorithmSelectionStage == AlgorithmSelectionStageOn(stage_available)

\* a plausible slip: "if not context.algorithms", which also rejects an empty selection
algorithms_unset_or_empty(ctx) == "algorithms" \notin ctx.isset \/ ctx.algorithms = <<>>

\* "if context.algorithms is None" (stages.py 245)
algorithms_unset(ctx) == "algorithms" \notin ctx.isset

\* a plausible slip: only the training part of the split is checked
split_unset_train_only(ctx) == ~({"X_train", "y_train"} \subseteq ctx.isset)

\* "context.X_train is None or context.y_train is None or context.X_test is None or context.y_test is None"
\* (stages.py 248-254)
split_unset(ctx) == ~({"X_train", "y_train", "X_test", "y_test"} \subseteq ctx.isset)

\* ModelTrainingStage.execute up to the call of train_models, and the locals of train_models (stages.py 243-262, trainer.py 133-138)
ModelTrainingStage ==
    /\ AtStage("ModelTrainingStage")
    /\ IF algorithms_unset(context)
       THEN Raise(events, Entered("ModelTrainingStage", "raised"), "InvalidDataError", "Algorithm selection stage must run before training", <<>>) /\ UNCHANGED train
       ELSE IF split_unset(context)
       THEN Raise(events, Entered("ModelTrainingStage", "raised"), "InvalidDataError", "Split stage must run before training", <<>>) /\ UNCHANGED train
       ELSE /\ events' = report(events, "training", Pct(20))
            /\ executed' = Entered("ModelTrainingStage", "running")
            /\ train' = NewTrain
            /\ pc' = "iteration"
            /\ UNCHANGED <<outcome, error>>
    /\ UNCHANGED <<config, data, installed, cancellation_check, calls, stage_idx, context, result, polls, err_log, sel, trained_model, opt, ovf, other>>

(***************************************************************************)
(* training/trainer.py and training/optimizer.py                           *)
(***************************************************************************)
\* a plausible slip: a reporter without a cancellation check answers True
is_cancelled_true_without_check == IF cancellation_check THEN BOOLEAN ELSE {TRUE}

\* the answers reporter.is_cancelled() can give (reporter.py 104-108, 121-123)
is_cancelled == IF cancellation_check THEN BOOLEAN ELSE {FALSE}

\* a plausible slip: the loop of train_models starts an iteration without asking the reporter
Polled_trial_only(at, c) ==
    IF at = "iteration" THEN polls
    ELSE [iteration |-> polls.iteration, trial |-> polls.trial + 1, last |-> at, cancelled |-> c]

\* one more call of is_cancelled, at the start of an iteration or of a trial, answered c
Polled(at, c) == [iteration |-> polls.iteration + (IF at = "iteration" THEN 1 ELSE 0),
                  trial |-> polls.trial + (IF at = "trial" THEN 1 ELSE 0),
                  last |-> at,
                  cancelled |-> c]

\* number of selected algorithms and the one of the current iteration (trainer.py 138-140)
n_algorithms == Len(context.algorithms)
algorithm == context.algorithms[train.i + 1]

\* a plausible slip: progress computed from the one-based position of the algorithm
iteration_progress_one_based(i, n) == Pct(20) + (Pct(65) * (i + 1)) \div n

\* a plausible slip: progress computed from the algorithms still to train
iteration_progress_remaining(i, n) == Pct(20) + (Pct(65) * (n - i)) \div n

\* progress of the iteration at index i: 0.2 + (0.65 * i / n_algorithms) (trainer.py 146)
iteration_progress(i, n) == Pct(20) + (Pct(65) * i) \div n

\* a plausible slip: the pair counts the algorithm being started
models_completed_one_based(i, n) == <<i + 1, n>>

\* models_completed=(i, n_algorithms) (trainer.py 151)
models_completed(i, n) == <<i, n>>

\* head of one iteration of the loop of train_models (trainer.py 140-155), up to the call of train_single_model
Iteration ==
    /\ pc = "iteration"
    /\ train.i < n_algorithms
    /\ \E c \in is_cancelled :
        /\ polls' = Polled("iteration", c)
        /\ IF c
           THEN Raise(events, Ended("raised"), "CancelledError", "Training was cancelled", <<>>) /\ UNCHANGED train
           ELSE /\ events' = Append(events, ProgressUpdate("training", iteration_progress(train.i, n_algorithms), algorithm, models_completed(train.i, n_algorithms)))
                /\ train' = [train EXCEPT !.t = 0, !.study = <<>>]
                /\ pc' = IF config.optimize_hyperparams THEN "trial" ELSE "fit"
                /\ UNCHANGED <<executed, outcome, error>>
    /\ UNCHANGED <<config, data, installed, cancellation_check, calls, stage_idx, context, result, err_log, sel, trained_model, opt, ovf, other>>

\* a plausible slip: study.optimize called without catch, so that any exception of a trial leaves it
trial_state_uncaught(cancelled, raised) == IF cancelled THEN "ABORT" ELSE IF raised THEN "ABORT" ELSE "COMPLETE"

\* how study.optimize(..., catch=(Exception,)) records one call of objective (optimizer.py 54-101):
\* CancelledError is an Exception (errors.py 6, 62), so it is caught like any other and the trial is FAIL
trial_state(cancelled, raised) == IF cancelled THEN "FAIL" ELSE IF raised THEN "FAIL" ELSE "COMPLETE"

\* the value train_models records for an algorithm whose train_single_model returned None (trainer.py 173)
NoResultMessage == "Training returned no result"

\* a plausible slip: a failure overwrites the whole map instead of adding one entry
record_failure_overwrite(fmap, name, message) == (name :> message)

\* failures[algorithm] = ... (trainer.py 173)
record_failure(fmap, name, message) == (name :> message) @@ fmap

\* the exception, if any, that ends train_single_model before fit: study.best_trial raises ValueError when no
\* trial completed (optimizer.py 106); create_model raises ValueError (trainer.py 68, optimizer.py 107)
pre_fit_error ==
    IF config.optimize_hyperparams /\ ~In("COMPLETE", train.study) THEN "No trials are completed yet."
    ELSE IF create_model_raises(installed, algorithm, config.problem_type) THEN "Unknown algorithm"
    ELSE "None"

\* train_single_model swallowed an exception and returned None; train_models records it (trainer.py 101-103, 172-173);
\* the locals of the call (the study) are gone
Failed(message) ==
    /\ train' = [train EXCEPT !.i = @ + 1, !.failures = record_failure(@, algorithm, NoResultMessage), !.t = 0, !.study = <<>>]
    /\ err_log' = Append(err_log, [algorithm |-> algorithm, message |-> message])

\* the best_params of train_single_model (trainer.py 58, 67), by where the mapping comes from: the study
\* of the algorithm, or its default parameters
best_params == [algorithm |-> algorithm, source |-> IF config.optimize_hyperparams THEN "study" ELSE "default"]

\* train_single_model returned (model, result); train_models keeps both (trainer.py 89-99, 168-171)
Trained(score) ==
    /\ train' = [train EXCEPT !.i = @ + 1, !.t = 0, !.study = <<>>,
                              !.models = (algorithm :> [algo |-> algorithm, id |-> train.i + 1, score |-> score]) @@ @,
                              !.results = Append(@, [name |-> algorithm, test_score |-> score, hyperparameters |-> best_params])]
    /\ UNCHANGED err_log

\* one trial of the study: objective(trial) (optimizer.py 54-90) under study.optimize (optimizer.py 96-101).
\* An exception that study.optimize does not catch leaves optimize_hyperparameters and is swallowed by
\* train_single_model (trainer.py 101-103), whatever its type.
Trial ==
    /\ pc = "trial"
    /\ train.t < config.n_trials
    /\ \E c \in is_cancelled, ok \in BOOLEAN :
        /\ (c \/ create_model_raises(installed, algorithm, config.problem_type)) => ok
        /\ polls' = Polled("trial", c)
        /\ LET st == trial_state(c, create_model_raises(installed, algorithm, config.problem_type) \/ ~ok) IN
           IF st = "ABORT"
           THEN Failed(IF c THEN "Training was cancelled" ELSE "trial raised") /\ pc' = "iteration"
           ELSE /\ train' = [train EXCEPT !.t = @ + 1, !.study = Append(@, st)]
                /\ pc' = IF train.t + 1 = config.n_trials THEN "fit" ELSE "trial"
                /\ UNCHANGED err_log
    /\ UNCHANGED <<config, data, installed, cancellation_check, calls, stage_idx, executed, events, context, outcome, error, result, sel, trained_model, opt, ovf, other>>

\* the rest of train_single_model after the hyperparameters are chosen, and what train_models does with
\* its return value (optimizer.py 105-120, trainer.py 65-103, 168-179); fit and scoring are external
Fit ==
    /\ pc = "fit"
    /\ IF pre_fit_error # "None"
       THEN Failed(pre_fit_error)
       ELSE \E ok \in BOOLEAN, score \in Scores :
            IF ok THEN Trained(score) ELSE score = 1 /\ Failed("fit failed")
    /\ pc' = "iteration"
    /\ UNCHANGED <<config, data, installed, cancellation_check, calls, stage_idx, executed, events, context, outcome, error, result, polls, sel, trained_model, opt, ovf, other>>

\* a plausible slip: an unstable sort, a result goes before the results of equal score
insert_before_ties(sorted, r) ==
    LET k == Cardinality({j \in 1..Len(sorted) : sorted[j].test_score > r.test_score})
    IN  SubSeq(sorted, 1, k) \o <<r>> \o SubSeq(sorted, k + 1, Len(sorted))

\* one step of the stable descending sort: r goes after every result of greater or equal score
insert_result(sorted, r) ==
    LET k == Cardinality({j \in 1..Len(sorted) : sorted[j].test_score >= r.test_score})
    IN  SubSeq(sorted, 1, k) \o <<r>> \o SubSeq(sorted, k + 1, Len(sorted))

\* results.sort(key=lambda r: r.test_score, reverse=True) (trainer.py 185): stable, descending
RECURSIVE sort_results(_)
sort_results(rs) == IF rs = <<>> THEN <<>> ELSE insert_result(sort_results(SubSeq(rs, 1, Len(rs) - 1)), rs[Len(rs)])

\* a plausible slip: the estimator trained first is returned, as if the results were still in training order
best_model_first_trained(models, sorted) == models[train.results[1].name]

\* best_algorithm = results[0].name; best_model = models[best_algorithm] (trainer.py 188-189)
best_model(models, sorted) == models[sorted[1].name]

\* a plausible slip: any recorded failure escalates
any_failed(results, failures) == DOMAIN failures # {}

\* "if not results" (trainer.py 181)
all_failed(results, failures) == results = <<>>

\* the end of train_models and of ModelTrainingStage.execute (trainer.py 181-191, stages.py 264-277)
TrainEnd ==
    /\ pc = "iteration"
    /\ train.i >= n_algorithms
    /\ IF all_failed(train.results, train.failures)
       THEN Raise(events, Ended("raised"), "TrainingFailedError", "All models failed to train", train.failures) /\ UNCHANGED <<context, stage_idx>>
       ELSE LET sorted == sort_results(train.results) IN
            /\ context' = [context EXCEPT !.isset = @ \cup {"model", "model_results"},
                                          !.model = best_model(train.models, sorted),
                                          !.model_results = sorted]
            /\ executed' = Ended("returned")
            /\ stage_idx' = stage_idx + 1
            /\ pc' = "stage"
            /\ UNCHANGED <<events, outcome, error>>
    /\ UNCHANGED <<config, data, installed, cancellation_check, calls, train, result, polls, err_log, sel, trained_model, opt, ovf, other>>

\* a plausible slip: test_score is not passed to the metrics and keeps its default
calculate_metrics_default(model) == [test_score |-> 0, cv_score |-> 0, train_score |-> 0]

\* a plausible slip: the cross-validation and train scores of the best ModelResult are passed on
calculate_metrics_of_best(model) == [test_score |-> model.score, cv_score |-> context.model_results[1].cv_score, train_score |-> context.model_results[1].train_score]

\* EvaluationStage._calculate_metrics (stages.py 312-359): test_score is the accuracy (or r2) of the
\* estimator on the test split, the quantity model.score gave the trainer; cv_score and train_score keep
\* the defaults of BaseMetrics (metrics.py 12-18)
calculate_metrics(model) == [test_score |-> model.score, cv_score |-> 0, train_score |-> 0]

\* EvaluationStage.execute (stages.py 290-310); model.predict is external and may raise
EvaluationStage ==
    /\ AtStage("EvaluationStage")
    /\ LET evs == report(events, "evaluation", Pct(90)) IN
       IF ~({"model", "X_test", "y_test"} \subseteq context.isset)
       THEN Raise(evs, Entered("EvaluationStage", "raised"), "InvalidDataError", "Training stage must run before evaluation", <<>>) /\ UNCHANGED <<context, stage_idx>>
       ELSE \E ok \in BOOLEAN :
            IF ~ok
            THEN Raise(evs, Entered("EvaluationStage", "raised"), "Exception", "predict failed", <<>>) /\ UNCHANGED <<context, stage_idx>>
            ELSE Return(evs, Entered("EvaluationStage", "returned"), [context EXCEPT !.isset = @ \cup {"metrics"}, !.metrics = calculate_metrics(context.model)])
    /\ UNCHANGED <<config, data, installed, cancellation_check, calls, train, result, polls, err_log, sel, trained_model, opt, ovf, other>>

\* the method tags explain_model can return (explainer.py 45-93): it catches every exception
ExplainMethods == {"shap", "none", "shap_failed", "failed"}

\* what the SHAP computation inside explain_model can do: succeed, find no working strategy
\* (compute_shap_values_with_chain returns None), give values of the wrong shape, or raise
Attributions == {"ok", "no_strategy", "bad_shape", "raised"}

\* a plausible slip: explain_model without its try/except, an exception of the computation leaves it
explain_model_uncaught(shap_available, attribution) ==
    IF ~shap_available THEN "none"
    ELSE IF attribution = "raised" THEN "EXCEPTION"
    ELSE IF attribution \in {"no_strategy", "bad_shape"} THEN "shap_failed"
    ELSE "shap"

\* explain_model (explainer.py 45-93): the method tag of the ExplainabilityResult it returns
explain_model(shap_available, attribution) ==
    IF ~shap_available THEN "none"
    ELSE IF attribution = "raised" THEN "failed"
    ELSE IF attribution \in {"no_strategy", "bad_shape"} THEN "shap_failed"
    ELSE "shap"

\* a plausible slip: the stage ignores the setting
explainability_always_on(cfg) == FALSE

\* "if not context.config.enable_explainability" (stages.py 375)
explainability_off(cfg) == ~cfg.enable_explainability

\* ExplainabilityStage.execute (stages.py 373-398); the stage has no try block, an exception leaving
\* explain_model would leave the stage
ExplainabilityStage ==
    /\ AtStage("ExplainabilityStage")
    /\ IF explainability_off(config)
       THEN Return(events, Entered("ExplainabilityStage", "returned"), [context EXCEPT !.isset = @ \cup {"explainability"}, !.explainability = "disabled"]) /\ UNCHANGED calls
       ELSE LET evs == report(events, "explainability", Pct(95)) IN
            IF ~({"model", "X_test", "preprocessor"} \subseteq context.isset)
            THEN Raise(evs, Entered("ExplainabilityStage", "raised"), "InvalidDataError", "Training stage must run before explainability", <<>>) /\ UNCHANGED <<context, stage_idx, calls>>
            ELSE \E shap_available \in BOOLEAN, attribution \in Attributions :
                 /\ ~shap_available => attribution = "ok"
                 /\ calls' = [calls EXCEPT !.explain_model = @ + 1, !.attribution = IF shap_available THEN attribution ELSE "unavailable"]
                 /\ LET method == explain_model(shap_available, attribution) IN
                    IF method = "EXCEPTION"
                    THEN Raise(evs, Entered("ExplainabilityStage", "raised"), "Exception", "attribution failed", <<>>) /\ UNCHANGED <<context, stage_idx>>
                    ELSE Return(evs, Entered("ExplainabilityStage", "returned"), [context EXCEPT !.isset = @ \cup {"explainability"}, !.explainability = method])
    /\ UNCHANGED <<config, data, installed, cancellation_check, train, result, polls, err_log, sel, trained_model, opt, ovf, other>>

(***************************************************************************)
(* pipeline/orchestrator.py: completion                                    *)
(***************************************************************************)
\* Preprocessor.feature_names: [str(c) for c in X.columns], X being the frame without its target column
\* (preprocessor.py 88, stages.py 85)
feature_names(columns, target) == [k \in 1..Len(SelectSeq(columns, LAMBDA c : c # target)) |-> str(SelectSeq(columns, LAMBDA c : c # target)[k])]

\* Preprocessor.class_labels: the classes of the label encoder, None (here <<>>) for regression
\* (preprocessor.py 59-61, 101)
class_labels(problem_type) == IF problem_type = "classification" THEN <<"0", "1">> ELSE <<>>

\* a plausible slip: only the best ModelResult is passed to the TrainingResult
build_result_best_only(ctx) == [success |-> TRUE,
                      best_model_name |-> ctx.model_results[1].name,
                      metrics |-> ctx.metrics,
                      model_comparison |-> SubSeq(ctx.model_results, 1, 1),
                      explainability |-> IF "explainability" \in ctx.isset THEN ctx.explainability ELSE "none",
                      model |-> ctx.model,
                      preprocessor |-> "fitted",
                      feature_names |-> feature_names(data.columns, StrLabel(ctx.target_column)),
                      class_labels |-> class_labels(config.problem_type),
                      problem_type |-> config.problem_type,
                      target_column |-> ctx.target_column]

\* Pipeline._build_result (orchestrator.py 162-176); _preprocessor is the preprocessor fitted by the run
build_result(ctx) == [success |-> TRUE,
                      best_model_name |-> ctx.model_results[1].name,
                      metrics |-> ctx.metrics,
                      model_comparison |-> ctx.model_results,
                      explainability |-> IF "explainability" \in ctx.isset THEN ctx.explainability ELSE "none",
                      model |-> ctx.model,
                      preprocessor |-> "fitted",
                      feature_names |-> feature_names(data.columns, StrLabel(ctx.target_column)),
                      class_labels |-> class_labels(config.problem_type),
                      problem_type |-> config.problem_type,
                      target_column |-> ctx.target_column]

\* Pipeline.create_trained_model (orchestrator.py 178-202) with TrainedModel.from_training_result and
\* create_artifact (model.py 229-262, artifact.py 48-93): cfg is the configuration of the pipeline the
\* method is called on
create_trained_model(cfg, res) ==
    [called |-> TRUE,
     model |-> res.model,
     preprocessor |-> res.preprocessor,
     problem_type |-> cfg.problem_type,
     target_column |-> res.target_column,
     feature_names |-> res.feature_names,
     class_labels |-> res.class_labels,
     metrics |-> res.metrics,
     best_model_name |-> res.best_model_name,
     explainability |-> res.explainability,
     hyperparameters |-> IF res.model_comparison # <<>> THEN res.model_comparison[1].hyperparameters ELSE NoHyperparameters]

\* the end of Pipeline.train after the stage loop (orchestrator.py 130-135); the assertions of
\* _build_result (orchestrator.py 157-160) raise inside the try block
Complete ==
    /\ pc = "stage"
    /\ stage_idx > Len(stages)
    /\ LET evs == report(events, "complete", Unit) IN
       IF ~({"model_results", "metrics", "preprocessor", "target_column"} \subseteq context.isset)
       THEN Raise(evs, executed, "AssertionError", "", <<>>) /\ UNCHANGED result
       ELSE /\ events' = evs
            /\ result' = build_result(context)
            /\ pc' = "finished"
            /\ outcome' = "returned"
            /\ UNCHANGED <<executed, error>>
    /\ UNCHANGED <<config, data, installed, cancellation_check, calls, stage_idx, context, train, polls, err_log, sel, trained_model, opt, ovf, other>>

Next ==
    \/ TrainStart
    \/ ValidationStage
    \/ PreprocessingStage
    \/ SplitStage
    \/ AlgorithmSelectionStage
    \/ ModelTrainingStage
    \/ Iteration
    \/ Trial
    \/ Fit
    \/ TrainEnd
    \/ EvaluationStage
    \/ ExplainabilityStage
    \/ Complete

Spec == Init /\ [][Next]_vars

(***************************************************************************)
(* SelSpec: select_algorithms on arbitrary bounded inputs.                 *)
(***************************************************************************)
\* names the available list is drawn from: tree ensembles, the neural network, names of the
\* priority tables and names outside them
AvailNames == {"random_forest", "lightgbm", "neural_network", "logistic_regression", "svm"}

\* (n_samples, n_features) shapes: small, medium and large, high-dimensional by count, by ratio, or not
Shapes == {<<500, 10>>, <<100, 60>>, <<5000, 20>>, <<1000, 150>>, <<50000, 50>>, <<20000, 150>>}

SelInputs == {[called |-> FALSE,
               info |-> [n_samples |-> sh[1], n_features |-> sh[2], problem_type |-> pt],
               available |-> av,
               top_k |-> k,
               include_neural |-> nn,
               priority |-> <<>>,
               selected |-> <<>>] :
              sh \in Shapes, pt \in {"classification", "regression"}, av \in SeqsUpTo(AvailNames, MaxAvail), k \in 1..(MaxTopK + 2), nn \in BOOLEAN}

SelInit ==
    /\ config = CHOOSE c \in Configs : TRUE
    /\ data = CHOOSE d \in DataSets : TRUE
    /\ installed = {}
    /\ cancellation_check = FALSE
    /\ pc = "select"
    /\ stage_idx = 1
    /\ executed = <<>>
    /\ events = <<>>
    /\ context = NewContext
    /\ train = NewTrain
    /\ outcome = "running"
    /\ error = NoError
    /\ result = NoResult
    /\ polls = NoPolls
    /\ err_log = <<>>
    /\ calls = NoCalls
    /\ sel \in SelInputs
    /\ trained_model = NoTrainedModel
    /\ opt = NoOpt
    /\ ovf = NoOvf
    /\ other = NoOther

\* one call of select_algorithms (selector.py 89-143)
SelectCall ==
    /\ pc = "select"
    /\ ~sel.called
    /\ sel' = [sel EXCEPT !.called = TRUE,
                          !.priority = priority_list(sel.info),
                          !.selected = select_algorithms(sel.info, sel.available, sel.top_k, sel.include_neural)]
    /\ UNCHANGED run_vars

SelNext == SelectCall

SelSpec == SelInit /\ [][SelNext]_vars

(***************************************************************************)
(* ValSpec: Pipeline.train up to the end of ValidationStage, on a wider    *)
(* range of frames and of configured target columns.                       *)
(***************************************************************************)
\* values of PipelineConfig.target_column: none, the name of a column of the named frames, another name
ValTargets == {"None", "target", "label"}

ValConfigs == {[c EXCEPT !.target_column = t] : c \in {CHOOSE c \in Configs : TRUE}, t \in ValTargets}

\* row counts around the minimum of 10 (stages.py 81)
ValRows == {0, 9, 10, 40}

ValDataSets == {d \in [provided : BOOLEAN, columns : {NamedColumns, NumberedColumns, NoColumns}, has_null : BOOLEAN, n_rows : ValRows, n_features : {2}] :
                 /\ (~d.provided => d.columns = NamedColumns /\ ~d.has_null /\ d.n_rows = 40)
                 /\ (d.columns = NoColumns \/ d.n_rows = 0 => ~d.has_null)}

ValInit ==
    /\ config \in ValConfigs
    /\ data \in ValDataSets
    /\ installed = {}
    /\ cancellation_check = FALSE
    /\ pc = "start"
    /\ stage_idx = 1
    /\ executed = <<>>
    /\ events = <<>>
    /\ context = NewContext
    /\ train = NewTrain
    /\ outcome = "running"
    /\ error = NoError
    /\ result = NoResult
    /\ polls = NoPolls
    /\ err_log = <<>>
    /\ calls = NoCalls
    /\ sel = NoSel
    /\ trained_model = NoTrainedModel
    /\ opt = NoOpt
    /\ ovf = NoOvf
    /\ other = NoOther

ValNext ==
    \/ TrainStart
    \/ ValidationStage

ValSpec == ValInit /\ [][ValNext]_vars

(***************************************************************************)
(* TwoSpec: two runs of Pipeline.train whose steps interleave, started     *)
(* from one Pipeline object or from two. The variables of the model hold   *)
(* the run that is executing; other holds the one that is suspended.       *)
(***************************************************************************)
\* configurations of the two runs: two algorithms chosen by select_algorithms, no hyperparameter search,
\* no explanation
TwoConfigs == {c \in Configs : c.algorithm = "None" /\ ~c.optimize_hyperparams /\ c.enable_neural_networks /\ ~c.enable_explainability
                                /\ c.top_k_algorithms = 2}

\* frames of the two runs: one too short, one small, one of medium size and high dimension
TwoDataSets == {d \in DataSets : d.provided /\ d.columns = NamedColumns /\ ~d.has_null /\ d.n_rows \in {5, 40, 1200}}

\* a plausible slip: the context is kept on the Pipeline object (self._context), which two runs of one
\* Pipeline share
RunLocals_context_on_self(same_pipeline) ==
    {"data", "pc", "stage_idx", "executed", "events", "train", "outcome", "error", "result", "polls", "err_log", "calls"}
    \cup (IF same_pipeline THEN {} ELSE {"config", "context"})

\* what belongs to one call of Pipeline.train: its argument data, its position, its local context (with
\* everything train_models and the stages keep on it or in their own locals), its exception or return value
\* (orchestrator.py 113-142), and the histories kept of it, among them the events it has reported: the
\* reporters keep nothing of a report (reporter.py 78-123). self._config belongs to the Pipeline object
\* (orchestrator.py 73) and is common to the runs of one Pipeline
RunLocals(same_pipeline) ==
    {"data", "pc", "stage_idx", "executed", "events", "context", "train", "outcome", "error", "result", "polls", "err_log", "calls"}
    \cup (IF same_pipeline THEN {} ELSE {"config"})

\* the state of a run about to start
NewRun(id, same_pipeline, cfg, d) ==
    [id |-> id, same_pipeline |-> same_pipeline, config |-> cfg, data |-> d, pc |-> "start", stage_idx |-> 1, executed |-> <<>>,
     events |-> <<>>, context |-> NewContext, train |-> NewTrain, outcome |-> "running", error |-> NoError, result |-> NoResult,
     polls |-> NoPolls, err_log |-> <<>>, calls |-> NoCalls]

TwoInit ==
    /\ config \in TwoConfigs
    /\ data \in TwoDataSets
    /\ installed = {}
    /\ cancellation_check = FALSE
    /\ pc = "start"
    /\ stage_idx = 1
    /\ executed = <<>>
    /\ events = <<>>
    /\ context = NewContext
    /\ train = NewTrain
    /\ outcome = "running"
    /\ error = NoError
    /\ result = NoResult
    /\ polls = NoPolls
    /\ err_log = <<>>
    /\ calls = NoCalls
    /\ sel = NoSel
    /\ trained_model = NoTrainedModel
    /\ opt = NoOpt
    /\ ovf = NoOvf
    /\ \E same_pipeline \in BOOLEAN, cfg \in TwoConfigs, d \in TwoDataSets :
          /\ same_pipeline => cfg = config
          /\ other = NewRun(2, same_pipeline, cfg, d)

\* the value a name has after the switch: that of the resumed run if the name is local to a run, else
\* the one it has
Resumed(name, own, suspended) == IF name \in RunLocals(other.same_pipeline) THEN suspended ELSE own

\* the scheduler suspends the executing run and resumes the other one
Switch ==
    /\ other.id # 0
    /\ other.pc # "finished"
    /\ config' = Resumed("config", config, other.config)
    /\ data' = Resumed("data", data, other.data)
    /\ pc' = Resumed("pc", pc, other.pc)
    /\ stage_idx' = Resumed("stage_idx", stage_idx, other.stage_idx)
    /\ executed' = Resumed("executed", executed, other.executed)
    /\ events' = Resumed("events", events, other.events)
    /\ context' = Resumed("context", context, other.context)
    /\ train' = Resumed("train", train, other.train)
    /\ outcome' = Resumed("outcome", outcome, other.outcome)
    /\ error' = Resumed("error", error, other.error)
    /\ result' = Resumed("result", result, other.result)
    /\ polls' = Resumed("polls", polls, other.polls)
    /\ err_log' = Resumed("err_log", err_log, other.err_log)
    /\ calls' = Resumed("calls", calls, other.calls)
    /\ other' = [id |-> 3 - other.id, same_pipeline |-> other.same_pipeline, config |-> config, data |-> data, pc |-> pc,
                 stage_idx |-> stage_idx, executed |-> executed, events |-> events, context |-> context, train |-> train,
                 outcome |-> outcome, error |-> error, result |-> result, polls |-> polls, err_log |-> err_log, calls |-> calls]
    /\ UNCHANGED <<installed, cancellation_check, sel, trained_model, opt, ovf>>

TwoNext ==
    \/ TrainStart
    \/ ValidationStage
    \/ PreprocessingStage
    \/ SplitStage
    \/ AlgorithmSelectionStage
    \/ ModelTrainingStage
    \/ Iteration
    \/ Fit
    \/ TrainEnd
    \/ EvaluationStage
    \/ ExplainabilityStage
    \/ Complete
    \/ Switch

TwoSpec == TwoInit /\ [][TwoNext]_vars

(***************************************************************************)
(* StepSpec: the first four stages executed one by one on one context, on  *)
(* frames whose shapes lie at the thresholds of DatasetInfo; the caller    *)
(* may execute the stage that just returned once more on the context it    *)
(* returned.                                                               *)
(***************************************************************************)
\* (row count, transformed feature count): training splits of 999, 1000, 9999 and 10000 rows; 100 and 101
\* features; 16 and 17 features on a training split of 32 rows; a training split of 960 out of 1200 rows
StepShapes == {<<1249, 2>>, <<1250, 2>>, <<12499, 2>>, <<12500, 2>>, <<1250, 100>>, <<1250, 101>>, <<40, 16>>, <<40, 17>>, <<1200, 2>>}

StepConfigs == {c \in Configs : c.algorithm \in {"None", "knn"} /\ ~c.optimize_hyperparams /\ ~c.enable_explainability}

StepDataSets == {[provided |-> TRUE, columns |-> NamedColumns, has_null |-> FALSE, n_rows |-> sh[1], n_features |-> sh[2]] : sh \in StepShapes}

StepInit ==
    /\ config \in StepConfigs
    /\ data \in StepDataSets
    /\ installed \in InstallProfiles
    /\ cancellation_check = FALSE
    /\ pc = "start"
    /\ stage_idx = 1
    /\ executed = <<>>
    /\ events = <<>>
    /\ context = NewContext
    /\ train = NewTrain
    /\ outcome = "running"
    /\ error = NoError
    /\ result = NoResult
    /\ polls = NoPolls
    /\ err_log = <<>>
    /\ calls = NoCalls
    /\ sel = NoSel
    /\ trained_model = NoTrainedModel
    /\ opt = NoOpt
    /\ ovf = NoOvf
    /\ other = NoOther

\* stage.execute(context) called once more on the context the stage just returned; once in a run
Reexecute ==
    /\ pc = "stage"
    /\ stage_idx \in 2..5
    /\ Len(executed) = stage_idx - 1
    /\ executed[Len(executed)].status = "returned"
    /\ stage_idx' = stage_idx - 1
    /\ UNCHANGED <<config, data, installed, cancellation_check, pc, executed, events, context, train, outcome, error, result, polls, err_log, calls, sel, trained_model, opt, ovf, other>>

StepNext ==
    \/ TrainStart
    \/ ValidationStage
    \/ PreprocessingStage
    \/ SplitStage
    \/ AlgorithmSelectionStage
    \/ Reexecute

StepSpec == StepInit /\ [][StepNext]_vars

(***************************************************************************)
(* RegSpec: Pipeline.train up to the end of ModelTrainingStage, where the  *)
(* list of available algorithms that AlgorithmSelectionStage works on is   *)
(* any leading part of the registered ones, the empty list included.       *)
(***************************************************************************)
\* no forced algorithm, so that the selection goes through select_algorithms
RegConfigs == {c \in Configs : c.algorithm = "None"}

\* one frame that passes validation
RegDataSets == {d \in DataSets : d.provided /\ d.columns = NamedColumns /\ ~d.has_null /\ d.n_rows = 40}

RegInit ==
    /\ config \in RegConfigs
    /\ data \in RegDataSets
    /\ installed \in InstallProfiles
    /\ cancellation_check \in BOOLEAN
    /\ pc = "start"
    /\ stage_idx = 1
    /\ executed = <<>>
    /\ events = <<>>
    /\ context = NewContext
    /\ train = NewTrain
    /\ outcome = "running"
    /\ error = NoError
    /\ result = NoResult
    /\ polls = NoPolls
    /\ err_log = <<>>
    /\ calls = NoCalls
    /\ \E n \in 0..MaxAvail : sel = [NoSel EXCEPT !.available = SubSeq(stage_available, 1, n)]
    /\ trained_model = NoTrainedModel
    /\ opt = NoOpt
    /\ ovf = NoOvf
    /\ other = NoOther

\* AlgorithmSelectionStage.execute on the list drawn at the start
SelectFromAvailable == AlgorithmSelectionStageOn(sel.available)

RegNext ==
    \/ TrainStart
    \/ ValidationStage
    \/ PreprocessingStage
    \/ SplitStage
    \/ SelectFromAvailable
    \/ ModelTrainingStage
    \/ Iteration
    \/ Trial
    \/ Fit
    \/ TrainEnd

RegSpec == RegInit /\ [][RegNext]_vars

(***************************************************************************)
(* StgSpec: the stages executed from any position of the stage list on a   *)
(* context in which the fields of the earlier stages are set, but for at   *)
(* most one of them.                                                       *)
(***************************************************************************)
\* the fields of the context a stage tests before it works (stages.py 113, 147, 195, 245-254, 299, 384-388)
Needs(name) ==
    CASE name = "ValidationStage" -> {}
      [] name = "PreprocessingStage" -> {"X", "y"}
      [] name = "SplitStage" -> {"_X_transformed", "_y_transformed"}
      [] name = "AlgorithmSelectionStage" -> {"X_train", "y_train"}
      [] name = "ModelTrainingStage" -> {"algorithms", "X_train", "y_train", "X_test", "y_test"}
      [] name = "EvaluationStage" -> {"model", "X_test", "y_test"}
      [] name = "ExplainabilityStage" -> {"model", "X_test", "preprocessor"}

\* the fields a stage sets ("Sets on context", stages.py 48, 100, 132, 182, 240, 287, 370)
Owns(name) ==
    CASE name = "ValidationStage" -> {"X", "y", "target_column"}
      [] name = "PreprocessingStage" -> {"preprocessor"}
      [] name = "SplitStage" -> {"X_train", "X_test", "y_train", "y_test"}
      [] name = "AlgorithmSelectionStage" -> {"algorithms"}
      [] name = "ModelTrainingStage" -> {"model", "model_results"}
      [] name = "EvaluationStage" -> {"metrics"}
      [] name = "ExplainabilityStage" -> {"explainability"}

\* the fields set when the stages before position k have run: the temporary arrays of PreprocessingStage
\* exist only until SplitStage deletes them (stages.py 121-122, 168-171)
SetBefore(k) ==
    (UNION {Owns(stages[j]) : j \in 1..(k - 1)}) \cup (IF k = 3 THEN {"_X_transformed", "_y_transformed"} ELSE {})

\* a context whose set fields are isset, with the values a run on a 40-row frame gives them
StgContext(isset) ==
    [NewContext EXCEPT !.isset = isset,
                       !.target_column = IF "target_column" \in isset THEN "target" ELSE "None",
                       !.n_train = IF "X_train" \in isset THEN n_train_of(40) ELSE 0,
                       !.n_features = IF "X_train" \in isset THEN 2 ELSE 0,
                       !.algorithms = IF "algorithms" \in isset THEN <<"knn">> ELSE <<>>,
                       !.model = IF "model" \in isset THEN [algo |-> "knn", id |-> 1, score |-> 1] ELSE NoEstimator,
                       !.model_results = IF "model_results" \in isset THEN <<[name |-> "knn", test_score |-> 1, hyperparameters |-> [algorithm |-> "knn", source |-> "default"]]>> ELSE <<>>,
                       !.metrics = IF "metrics" \in isset THEN calculate_metrics([algo |-> "knn", id |-> 1, score |-> 1]) ELSE NoMetrics]

StgConfigs == {c \in Configs : c.algorithm = "None" /\ c.top_k_algorithms = 1 /\ c.enable_neural_networks /\ c.n_trials = 1}

StgInit ==
    /\ config \in StgConfigs
    /\ data \in RegDataSets
    /\ installed = {}
    /\ cancellation_check = FALSE
    /\ pc = "stage"
    /\ stage_idx \in 1..Len(stages)
    /\ executed = <<>>
    /\ events = <<>>
    /\ \E dropped \in SUBSET SetBefore(stage_idx) :
          /\ Cardinality(dropped) <= 1
          /\ context = StgContext(SetBefore(stage_idx) \ dropped)
    /\ train = NewTrain
    /\ outcome = "running"
    /\ error = NoError
    /\ result = NoResult
    /\ polls = NoPolls
    /\ err_log = <<>>
    /\ calls = NoCalls
    /\ sel = NoSel
    /\ trained_model = NoTrainedModel
    /\ opt = NoOpt
    /\ ovf = NoOvf
    /\ other = NoOther

StgNext ==
    \/ ValidationStage
    \/ PreprocessingStage
    \/ SplitStage
    \/ AlgorithmSelectionStage
    \/ ModelTrainingStage
    \/ Iteration
    \/ Trial
    \/ Fit
    \/ TrainEnd
    \/ EvaluationStage
    \/ ExplainabilityStage

StgSpec == StgInit /\ [][StgNext]_vars

(***************************************************************************)
(* EvalSpec: Pipeline.train from EvaluationStage on, on the context that   *)
(* ModelTrainingStage leaves for one trained model, whose ModelResult      *)
(* carries the train and cross-validation scores train_single_model        *)
(* recorded.                                                               *)
(***************************************************************************)
\* train and cross-validation scores of a ModelResult (trainer.py 76-82), in hundredths; 0 is a score an
\* estimator can have
RecordedScores == {0, 50, 100}

\* the ModelResult of train_single_model (trainer.py 89-97) with its train and cross-validation scores
ModelResult(name, test_score, train_score, cv_score) ==
    [name |-> name, test_score |-> test_score, train_score |-> train_score, cv_score |-> cv_score, hyperparameters |-> [algorithm |-> name, source |-> "default"]]

EvalConfigs == {c \in Configs : c.algorithm = "None" /\ c.top_k_algorithms = 1 /\ c.enable_neural_networks /\ c.n_trials = 1}

EvalInit ==
    /\ config \in EvalConfigs
    /\ data \in RegDataSets
    /\ installed = {}
    /\ cancellation_check = FALSE
    /\ pc = "stage"
    /\ stage_idx = 6
    /\ executed = <<>>
    /\ events = <<>>
    /\ \E test_score \in Scores, train_score \in RecordedScores, cv_score \in RecordedScores :
          context = [StgContext(SetBefore(6)) EXCEPT !.model = [algo |-> "knn", id |-> 1, score |-> test_score],
                                                     !.model_results = <<ModelResult("knn", test_score, train_score, cv_score)>>]
    /\ train = NewTrain
    /\ outcome = "running"
    /\ error = NoError
    /\ result = NoResult
    /\ polls = NoPolls
    /\ err_log = <<>>
    /\ calls = NoCalls
    /\ sel = NoSel
    /\ trained_model = NoTrainedModel
    /\ opt = NoOpt
    /\ ovf = NoOvf
    /\ other = NoOther

EvalNext ==
    \/ EvaluationStage
    \/ ExplainabilityStage
    \/ Complete

EvalSpec == EvalInit /\ [][EvalNext]_vars

(***************************************************************************)
(* OvfSpec: one call of _assess_overfitting on a pair of scores.           *)
(***************************************************************************)
\* scores, in hundredths: the decimal values 0.00, 0.05, ... 1.00 as model.score returns them
OvfScores == {0, 5, 15, 50, 75, 80, 86, 90, 95, 96, 100}

\* pairs of scores at a decimal distance of 0.05 or 0.15 whose difference in double precision is smaller
\* than the literal of that distance (0.95 - 0.90 = 0.04999999999999993, 0.95 - 0.80 = 0.1499999999999999)
RoundsBelow == {<<95, 90>>, <<95, 80>>}

\* the same, where the difference is greater than that literal (0.80 - 0.75 = 0.050000000000000044,
\* 1.00 - 0.95 = 0.050000000000000044, 0.90 - 0.75 = 0.15000000000000002)
RoundsAbove == {<<80, 75>>, <<100, 95>>, <<90, 75>>}

\* gap = train_score - test_score (trainer.py 235) in double precision: the decimal difference in
\* hundredths and the side of that decimal's literal on which the computed double lies (-1 below, 0 equal,
\* 1 above); the side is kept for the distances 0.05 and 0.15, where a comparison depends on it
float_sub(a, b) ==
    [hundredths |-> a - b,
     rounded |-> IF <<a, b>> \in RoundsBelow THEN -1 ELSE IF <<a, b>> \in RoundsAbove THEN 1 ELSE 0]

\* a plausible slip: "gap <= t", the comparison that puts a gap equal to the threshold into the lower bucket
le(gap, t) == gap.hundredths < t \/ (gap.hundredths = t /\ gap.rounded <= 0)

\* "gap < t" for the literal t of a decimal threshold, in hundredths (trainer.py 237, 239)
lt(gap, t) == gap.hundredths < t \/ (gap.hundredths = t /\ gap.rounded < 0)

\* a plausible slip: both comparisons inclusive
assess_overfitting_inclusive(train_score, test_score) ==
    IF le(float_sub(train_score, test_score), 5) THEN "low"
    ELSE IF le(float_sub(train_score, test_score), 15) THEN "medium"
    ELSE "high"

\* _assess_overfitting (trainer.py 233-242)
assess_overfitting(train_score, test_score) ==
    IF lt(float_sub(train_score, test_score), 5) THEN "low"
    ELSE IF lt(float_sub(train_score, test_score), 15) THEN "medium"
    ELSE "high"

OvfInit ==
    /\ config = CHOOSE c \in Configs : TRUE
    /\ data = CHOOSE d \in DataSets : TRUE
    /\ installed = {}
    /\ cancellation_check = FALSE
    /\ pc = "assess"
    /\ stage_idx = 1
    /\ executed = <<>>
    /\ events = <<>>
    /\ context = NewContext
    /\ train = NewTrain
    /\ outcome = "running"
    /\ error = NoError
    /\ result = NoResult
    /\ polls = NoPolls
    /\ err_log = <<>>
    /\ calls = NoCalls
    /\ sel = NoSel
    /\ trained_model = NoTrainedModel
    /\ opt = NoOpt
    /\ \E a \in OvfScores, b \in OvfScores : ovf = [NoOvf EXCEPT !.train_score = a, !.test_score = b]
    /\ other = NoOther

\* overfitting_risk = _assess_overfitting(train_score, test_score) (trainer.py 87)
AssessOverfitting ==
    /\ pc = "assess"
    /\ ovf' = [ovf EXCEPT !.called = TRUE,
                          !.gap = float_sub(ovf.train_score, ovf.test_score),
                          !.risk = assess_overfitting(ovf.train_score, ovf.test_score)]
    /\ pc' = "finished"
    /\ UNCHANGED <<config, data, installed, cancellation_check, stage_idx, executed, events, context, train, outcome, error, result, polls, err_log, calls, sel, trained_model, opt, other>>

OvfNext == AssessOverfitting

OvfSpec == OvfInit /\ [][OvfNext]_vars

(***************************************************************************)
(* CtmSpec: Pipeline.create_trained_model applied to bounded arbitrary     *)
(* TrainingResults by a pipeline of either problem type.                   *)
(***************************************************************************)
\* ModelResults a TrainingResult may list
CtmEntries == {[name |-> n, test_score |-> 1, hyperparameters |-> [algorithm |-> n, source |-> src]] : n \in {"knn", "random_forest"}, src \in {"study", "default"}}

\* TrainingResults: of a classification or of a regression run, with up to two ranked entries
CtmResults == {[success |-> TRUE,
                best_model_name |-> IF mc = <<>> THEN "knn" ELSE mc[1].name,
                metrics |-> [test_score |-> 1, cv_score |-> 0, train_score |-> 0],
                model_comparison |-> mc,
                explainability |-> "shap",
                model |-> [algo |-> IF mc = <<>> THEN "knn" ELSE mc[1].name, id |-> 1, score |-> 1],
                preprocessor |-> "fitted",
                feature_names |-> feature_names(NamedColumns, StrLabel(tc)),
                class_labels |-> class_labels(pt),
                problem_type |-> pt,
                target_column |-> tc] :
               mc \in SeqsUpTo(CtmEntries, 2), pt \in {"classification", "regression"}, tc \in {"target", "feature"}}

\* the configuration of the pipeline create_trained_model is called on
CtmConfigs == {c \in Configs : c.algorithm = "knn" /\ ~c.optimize_hyperparams /\ c.enable_explainability}

CtmInit ==
    /\ config \in CtmConfigs
    /\ data = CHOOSE d \in DataSets : TRUE
    /\ installed = {}
    /\ cancellation_check = FALSE
    /\ pc = "create"
    /\ stage_idx = 1
    /\ executed = <<>>
    /\ events = <<>>
    /\ context = NewContext
    /\ train = NewTrain
    /\ outcome = "running"
    /\ error = NoError
    /\ result \in CtmResults
    /\ polls = NoPolls
    /\ err_log = <<>>
    /\ calls = NoCalls
    /\ sel = NoSel
    /\ trained_model = NoTrainedModel
    /\ opt = NoOpt
    /\ ovf = NoOvf
    /\ other = NoOther

\* one call of Pipeline.create_trained_model(result) (orchestrator.py 178-202)
CreateTrainedModel ==
    /\ pc = "create"
    /\ ~trained_model.called
    /\ trained_model' = create_trained_model(config, result)
    /\ UNCHANGED <<config, data, installed, cancellation_check, pc, stage_idx, executed, events, context, train, outcome, error, result, polls, err_log, calls, sel, opt, ovf, other>>

CtmNext == CreateTrainedModel

CtmSpec == CtmInit /\ [][CtmNext]_vars

(***************************************************************************)
(* OptSpec: one call of optimize_hyperparameters, trial by trial, with the *)
(* value of every trial.                                                   *)
(***************************************************************************)
\* algorithms the call is made for: two registered ones and an unregistered one
OptAlgorithms == {"knn", "neural_network", "no_such_algorithm"}

\* configurations of the call: hyperparameter search on
OptConfigs == {[c EXCEPT !.algorithm = a] : c \in {c \in Configs : c.optimize_hyperparams /\ c.algorithm = "knn" /\ c.top_k_algorithms = 1 /\ c.enable_neural_networks /\ c.enable_explainability}, a \in OptAlgorithms}

\* the names under which the suggest function of an algorithm registers values on the trial, the keys
\* of trial.params (sklearn_models.py 74-79, neural.py 229-241)
trial_params(a) ==
    IF a = "knn" THEN {"n_neighbors", "weights", "metric"}
    ELSE IF a = "neural_network" THEN {"n_layers", "units_layer_0", "dropout_rate", "learning_rate", "batch_size"}
    ELSE {}

\* the attributes of a newly constructed estimator (KNeighborsClassifier and KNeighborsRegressor keep
\* their constructor arguments; neural.py 33-52)
estimator_attributes(a) ==
    IF a = "knn" THEN {"n_neighbors", "weights", "metric", "algorithm", "leaf_size", "p", "metric_params", "n_jobs"}
    ELSE IF a = "neural_network" THEN {"hidden_layers", "dropout_rate", "learning_rate", "epochs", "batch_size", "early_stopping_patience", "random_state", "verbose"}
    ELSE {}

\* the loop "for key, value in best_params.items(): if hasattr(best_model, key): setattr(...)"
\* (optimizer.py 116-118): the names of the best set that reach the estimator
apply_best_params(a) == {key \in trial_params(a) : key \in estimator_attributes(a)}

\* what cross_val_score and np.mean give a trial (optimizer.py 71-80): an exception, a NaN mean
\* (cross_val_score reports a failed fold as NaN), or a score
CvOutcomes == {cv \in [kind : {"raise", "nan", "score"}, value : Scores] : cv.kind # "score" => cv.value = 1}

\* trial numbers of the completed trials of a study
completed(study) == {k \in 1..Len(study) : study[k].state = "COMPLETE"}

\* study.best_trial for direction "maximize" (optimizer.py 85, 106): a completed trial of greatest
\* value, the earliest of them; the study raises ValueError when it has no completed trial
best_trial(study) == CHOOSE b \in completed(study) : \A k \in completed(study) : study[k].value < study[b].value \/ (study[k].value = study[b].value /\ b <= k)

OptInit ==
    /\ config \in OptConfigs
    /\ data = CHOOSE d \in DataSets : TRUE
    /\ installed \in InstallProfiles
    /\ cancellation_check \in BOOLEAN
    /\ pc = "optimize"
    /\ stage_idx = 1
    /\ executed = <<>>
    /\ events = <<>>
    /\ context = NewContext
    /\ train = NewTrain
    /\ outcome = "running"
    /\ error = NoError
    /\ result = NoResult
    /\ polls = NoPolls
    /\ err_log = <<>>
    /\ calls = NoCalls
    /\ sel = NoSel
    /\ trained_model = NoTrainedModel
    /\ opt = NoOpt
    /\ ovf = NoOvf
    /\ other = NoOther

\* one call of objective(trial) under study.optimize(..., n_trials, catch=(Exception,)) (optimizer.py
\* 54-101). A trial whose objective raises, or returns NaN, is recorded FAIL; trial.params of trial
\* number k is the mapping k. Line 85 reads study.best_trial, which raises when best_params was set by
\* a trial that then failed and no trial has completed.
Objective ==
    /\ pc = "optimize"
    /\ opt.outcome = "running"
    /\ opt.t < config.n_trials
    /\ \E c \in is_cancelled, cv \in CvOutcomes :
        /\ (c \/ create_model_raises(installed, config.algorithm, config.problem_type)) => (cv.kind = "raise" /\ cv.value = 1)
        /\ polls' = Polled("trial", c)
        /\ LET tracking_raises == cv.kind # "raise" /\ opt.nonlocal_best_params # 0 /\ completed(opt.study) = {}
               raised == cv.kind = "raise" \/ tracking_raises
               st == IF ~raised /\ cv.kind = "nan" THEN "FAIL" ELSE trial_state(c, raised)
               tracked == IF cv.kind = "raise" \/ tracking_raises THEN opt.nonlocal_best_params
                          ELSE IF opt.nonlocal_best_params = 0 THEN opt.t + 1
                          ELSE IF cv.kind = "score" /\ cv.value > opt.study[best_trial(opt.study)].value THEN opt.t + 1
                          ELSE opt.nonlocal_best_params
           IN IF st = "ABORT"
              THEN opt' = [opt EXCEPT !.t = @ + 1, !.outcome = "raised"]
              ELSE opt' = [opt EXCEPT !.t = @ + 1,
                                      !.study = Append(@, [state |-> st, value |-> IF st = "COMPLETE" THEN cv.value ELSE 0, params |-> opt.t + 1]),
                                      !.nonlocal_best_params = tracked]
    /\ UNCHANGED <<config, data, installed, cancellation_check, pc, stage_idx, executed, events, context, train, outcome, error, result, err_log, calls, sel, trained_model, ovf, other>>

\* the end of optimize_hyperparameters, after study.optimize returned (optimizer.py 105-120)
OptimizeEnd ==
    /\ pc = "optimize"
    /\ opt.outcome = "running"
    /\ opt.t >= config.n_trials
    /\ IF completed(opt.study) = {} \/ create_model_raises(installed, config.algorithm, config.problem_type)
       THEN opt' = [opt EXCEPT !.outcome = "raised"]
       ELSE opt' = [opt EXCEPT !.outcome = "returned", !.best_trial = best_trial(opt.study), !.best_params = opt.study[best_trial(opt.study)].params,
                               !.best_model = [fresh |-> TRUE, fitted |-> FALSE, params_of |-> best_trial(opt.study), applied |-> apply_best_params(config.algorithm)]]
    /\ UNCHANGED <<config, data, installed, cancellation_check, pc, stage_idx, executed, events, context, train, outcome, error, result, polls, err_log, calls, sel, trained_model, ovf, other>>

OptNext ==
    \/ Objective
    \/ OptimizeEnd

OptSpec == OptInit /\ [][OptNext]_vars

(***************************************************************************)
(* Properties of a run (Spec).                                             *)
(***************************************************************************)
Last(s) == s[Len(s)]
Min(a, b) == IF a <= b THEN a ELSE b

\* the documented order of the seven stages
DocumentedOrder == <<"ValidationStage", "PreprocessingStage", "SplitStage", "AlgorithmSelectionStage", "ModelTrainingStage", "EvaluationStage", "ExplainabilityStage">>

\* C1: the stages entered so far are a prefix of Validate, Preprocess, Split, SelectAlgorithms, Train,
\* Evaluate, Explain (fixed order, each at most once); every stage but the last entered has returned
\* without error, and once a stage has raised the run is over and nothing runs after it.
C1_StageOrder ==
    /\ Len(executed) <= Len(DocumentedOrder)
    /\ \A k \in 1..Len(executed) : executed[k].stage = DocumentedOrder[k]
    /\ \A k \in 1..(Len(executed) - 1) : executed[k].status = "returned"
    /\ (executed # <<>> /\ Last(executed).status = "raised") => (pc = "finished" /\ outcome \in {"Failed", "Cancelled"})
    /\ outcome = "returned" => (Len(executed) = Len(DocumentedOrder) /\ Last(executed).status = "returned")

\* a run that went through all seven stages and returned
C1_Witness == outcome = "returned" /\ Len(executed) = 7 /\ Last(executed).stage = "ExplainabilityStage"

\* C2: in a successful run the delivered events start with (initializing, 0.0), end with (complete, 1.0)
\* and their progress never decreases from one event to the next.
C2_ProgressMonotone ==
    outcome = "returned" =>
        /\ Len(events) >= 2
        /\ events[1].stage = "initializing" /\ events[1].progress = 0
        /\ Last(events).stage = "complete" /\ Last(events).progress = Unit
        /\ \A k \in 1..(Len(events) - 1) : events[k].progress <= events[k + 1].progress

\* a successful run with two algorithms, one of which failed, and explainability on
C2_Witness ==
    /\ outcome = "returned"
    /\ n_algorithms >= 2
    /\ Len(err_log) >= 1
    /\ config.enable_explainability
    /\ \E k \in 1..Len(events) : events[k].stage = "training" /\ events[k].models_completed = <<1, n_algorithms>>

\* C3: when is_cancelled() has answered true at the start of the i-th training iteration, the run is
\* over with CancelledError: Cancelled is reported last, no TrainingResult exists, the results produced
\* so far are not on the context, and only the algorithms before i were trained; cancelled before the
\* first algorithm, there are zero ModelResults.
C3_IterationCancel ==
        (polls.last = "iteration" /\ polls.cancelled) =>
            /\ pc = "finished"
            /\ outcome = "Cancelled"
            /\ error.type = "CancelledError"
            /\ Last(events).stage = "cancelled"
            /\ result = NoResult
            /\ "model_results" \notin context.isset /\ context.model_results = <<>>
            /\ "model" \notin context.isset /\ context.model = NoEstimator
            /\ polls.iteration = train.i + 1
            /\ Len(train.results) + Len(err_log) = train.i
            /\ (polls.iteration = 1 => train.results = <<>>)

\* cancellation observed at the start of the second iteration, after the first algorithm produced a result
C3_Witness ==
    /\ polls.last = "iteration" /\ polls.cancelled /\ polls.iteration = 2
    /\ Len(train.results) = 1

\* C4 (as claimed): a run in which is_cancelled() answered true at the start of a trial ends with
\* CancelledError and the terminal outcome Cancelled, never with TrainingFailedError, another failure
\* or a returned TrainingResult. (Shown on runs whose latest poll was that trial's.)
C4_TrialCancelAborts ==
    (pc = "finished" /\ polls.last = "trial" /\ polls.cancelled) =>
        /\ outcome = "Cancelled"
        /\ error.type = "CancelledError"

\* train_models has ended: by raising TrainingFailedError, by CancelledError, or by returning to the stage
TrainModelsRaisedFailed == error.type = "TrainingFailedError"
TrainModelsCancelled == error.type = "CancelledError"
TrainModelsReturned == "model_results" \in context.isset
TrainModelsEnded == TrainModelsRaisedFailed \/ TrainModelsCancelled \/ TrainModelsReturned

\* C5: when train_models has ended, it raised TrainingFailedError exactly when every selected
\* algorithm was attempted and failed; and, cancellation apart, whenever some algorithm produced a
\* ModelResult it returned normally, with every produced result in the returned list.
C5_TrainingFailedIff ==
    TrainModelsEnded =>
        /\ TrainModelsRaisedFailed <=> (train.i = n_algorithms /\ Len(err_log) = n_algorithms)
        /\ (train.results # <<>> /\ ~TrainModelsCancelled) =>
               (TrainModelsReturned /\ Len(context.model_results) = Len(train.results))
        /\ TrainModelsRaisedFailed => (outcome = "Failed" /\ ~TrainModelsReturned)

\* train_models returned although the first algorithm failed and a later one succeeded
C5_Witness ==
    /\ TrainModelsReturned
    /\ err_log # <<>> /\ err_log[1].algorithm = context.algorithms[1]
    /\ Len(train.results) = 1

\* C6 (as claimed): the failure map of TrainingFailedError has one entry per failed algorithm, keyed by
\* its name, whose value is the message of the error that made its training fail.
C6_FailureMessages ==
    TrainModelsRaisedFailed =>
        /\ DOMAIN error.failures = {err_log[k].algorithm : k \in 1..Len(err_log)}
        /\ \A k \in 1..Len(err_log) : error.failures[err_log[k].algorithm] = err_log[k].message

\* position of a name in the training order
TrainingOrder(name) == IndexOf(name, context.algorithms)

\* a ranked list: descending test scores, equal scores in training order
Ranked(mr) ==
    \A j, k \in 1..Len(mr) :
        j < k => /\ mr[j].test_score >= mr[k].test_score
                 /\ (mr[j].test_score = mr[k].test_score => TrainingOrder(mr[j].name) < TrainingOrder(mr[k].name))

\* C7: the list train_models returned, and the model_comparison of a returned TrainingResult, hold
\* exactly the produced ModelResults, sorted by test score descending, ties in training order.
C7_RankedStable ==
    /\ TrainModelsReturned => (Ranked(context.model_results) /\ Range(context.model_results) = Range(train.results))
    /\ outcome = "returned" => (Ranked(result.model_comparison) /\ result.model_comparison = context.model_results)

\* a returned result whose two ModelResults have the same test score
C7_Witness ==
    /\ outcome = "returned"
    /\ Len(result.model_comparison) = 2
    /\ result.model_comparison[1].test_score = result.model_comparison[2].test_score

\* C8: in a returned TrainingResult the best name is the name of the first ranked entry, and the
\* estimator carried is the one fitted in that algorithm's own training iteration.
C8_BestModel ==
    outcome = "returned" =>
        /\ result.best_model_name = result.model_comparison[1].name
        /\ result.model.algo = result.best_model_name
        /\ result.model.id = TrainingOrder(result.best_model_name)
        /\ result.model.score = result.model_comparison[1].test_score

\* a returned result whose best model was trained second and beat the one trained first
C8_Witness ==
    /\ outcome = "returned"
    /\ Len(result.model_comparison) = 2
    /\ result.model.id = 2
    /\ result.model_comparison[1].test_score > result.model_comparison[2].test_score

\* a step of the run refused a value of the configuration: create_model raised ValueError for the
\* algorithm the configuration names
ConfigRejected == \E k \in 1..Len(err_log) : create_model_raises(installed, err_log[k].algorithm, config.problem_type)

ValidateEnded == data.provided /\ executed # <<>>
ValidateRaised(type) == executed[1].status = "raised" /\ error.type = type
ValidateReturned == executed[1].status = "returned"

\* the target column as documented: the configured name, else the last column of the frame
DocumentedTarget == IF config.target_column # "None" THEN StrLabel(config.target_column) ELSE Last(data.columns)
DocumentedTargetPresent == IF config.target_column # "None" THEN In(StrLabel(config.target_column), data.columns) ELSE data.columns # <<>>

\* C12 (as claimed): Validate fails with TargetNotFound, carrying the requested name and the actual
\* columns, exactly when the resolved target (the configured name, else the last column) is not a column
\* of the frame; with the target present it fails with InvalidData exactly when a cell is null or there
\* are fewer than 10 rows; otherwise it returns with X, y and the resolved target name on the context.
C12_ValidateOutcome ==
    ValidateEnded =>
        /\ ValidateRaised("TargetNotFoundError") <=> ~DocumentedTargetPresent
        /\ ValidateRaised("TargetNotFoundError") => (error.column = StrLabel(config.target_column) /\ error.available = data.columns)
        /\ DocumentedTargetPresent =>
               /\ ValidateRaised("InvalidDataError") <=> (data.has_null \/ data.n_rows < 10)
               /\ ~(data.has_null \/ data.n_rows < 10) =>
                      /\ ValidateReturned
                      /\ {"X", "y", "target_column"} \subseteq context.isset
                      /\ context.target_column = DocumentedTarget.text

\* C24: ValidationStage reports the first violation in a fixed order: a target that is not a column of
\* the frame gives TargetNotFoundError even when the frame has null cells or fewer than 10 rows, and,
\* the target being a column, a null cell gives the null-values InvalidDataError even when the frame has
\* fewer than 10 rows.
C24_ValidationPrecedence ==
    (ValidateEnded /\ (config.target_column # "None" \/ data.columns # <<>>)) =>
        /\ ~In(target_column, data.columns) => ValidateRaised("TargetNotFoundError")
        /\ (In(target_column, data.columns) /\ data.has_null) =>
               (ValidateRaised("InvalidDataError") /\ error.message = "Data contains null values")

\* a frame of 9 rows with a null cell and its target column was rejected for the null cell
C24_Witness ==
    /\ ValidateEnded /\ In(target_column, data.columns) /\ data.has_null /\ data.n_rows < 10
    /\ ValidateRaised("InvalidDataError") /\ error.message = "Data contains null values"

\* a frame of 9 rows with a null cell and without the configured target was rejected for the target
C24_WitnessTarget ==
    /\ ValidateEnded /\ config.target_column # "None" /\ ~In(target_column, data.columns) /\ data.has_null /\ data.n_rows < 10
    /\ ValidateRaised("TargetNotFoundError")

\* positions of the events of a given stage value
EventsOf(stage) == {k \in 1..Len(events) : events[k].stage = stage}

\* a stage raised an exception other than CancelledError
StageFailed == executed # <<>> /\ Last(executed).status = "raised" /\ error.type # "CancelledError"

\* C13: when a stage has raised an error other than cancellation, the run is over with that error
\* re-raised: exactly one Failed event was delivered, it is the last event and carries the error's
\* message, no Complete event was delivered and no TrainingResult exists; and a run ends Failed only so.
C13_FailedOnce ==
    /\ StageFailed =>
           /\ pc = "finished" /\ outcome = "Failed"
           /\ error.type # "None"
           /\ Cardinality(EventsOf("failed")) = 1
           /\ Last(events).stage = "failed" /\ Last(events).progress = 0
           /\ Last(events).message = <<"Training failed: ", error.message>>
           /\ EventsOf("complete") = {} /\ EventsOf("cancelled") = {}
           /\ result = NoResult
    /\ outcome = "Failed" => StageFailed
    /\ pc # "finished" => EventsOf("failed") = {}

\* the Evaluate stage raised after two algorithms were trained
C13_Witness ==
    /\ StageFailed
    /\ Last(executed).stage = "EvaluationStage"
    /\ error.type = "Exception"
    /\ Len(train.results) = 2

\* the Explain stage has run
ExplainEnded == Len(executed) = 7

\* C14: with explainability disabled, explain_model is never called and no Explainability event is
\* delivered; once the Explain stage has run the context carries the method "disabled", and so does
\* the returned TrainingResult.
C14_ExplainDisabled ==
    ~config.enable_explainability =>
        /\ calls.explain_model = 0
        /\ EventsOf("explainability") = {}
        /\ ExplainEnded => (executed[7].status = "returned" /\ context.explainability = "disabled")
        /\ outcome = "returned" => result.explainability = "disabled"

\* a run with explainability disabled that returned a TrainingResult
C14_Witness == ~config.enable_explainability /\ outcome = "returned" /\ ExplainEnded

\* the attribution computation of the run failed
AttributionFailed == calls.attribution \in {"no_strategy", "bad_shape", "raised"}

\* C15: when the attribution computation has failed, the Explain stage has returned normally with a
\* sentinel method tag (one of the tags of explain_model other than "shap"), the run has not failed,
\* and when it is over it ended with Complete and a TrainingResult carrying that sentinel.
C15_AttributionFailureDegrades ==
    AttributionFailed =>
        /\ executed[7].stage = "ExplainabilityStage" /\ executed[7].status = "returned"
        /\ context.explainability \in ExplainMethods \ {"shap"}
        /\ outcome \in {"running", "returned"} /\ error = NoError
        /\ pc = "finished" =>
               /\ outcome = "returned"
               /\ Last(events).stage = "complete"
               /\ EventsOf("failed") = {}
               /\ result.success /\ result.explainability = context.explainability

\* a run whose attribution computation raised and that returned a TrainingResult
C15_Witness == calls.attribution = "raised" /\ pc = "finished" /\ outcome = "returned" /\ result.explainability = "failed"

\* the SelectAlgorithms stage has returned
SelectionReturned == Len(executed) >= 4 /\ executed[4].status = "returned"

\* C17: with an algorithm forced by the configuration, the selection is exactly that one name once the
\* SelectAlgorithms stage has returned, whatever the registry holds, whatever top-k, the shape of the
\* training split and the neural-network setting are.
C17_ForcedSelection ==
    (config.algorithm # "None" /\ SelectionReturned) => context.algorithms = <<config.algorithm>>

\* the forced name is not registered, top-k is above 1 and the split is large and high-dimensional
C17_Witness ==
    /\ SelectionReturned
    /\ config.algorithm = "no_such_algorithm"
    /\ config.top_k_algorithms > 1 /\ ~config.enable_neural_networks
    /\ context.n_features > 100

\* names of the algorithms that produced a ModelResult
ResultNames == {train.results[k].name : k \in 1..Len(train.results)}

\* C18: every finished iteration of the Train loop left either one ModelResult or one entry of the
\* failure map; a failure does not end the loop: when train_models has ended without cancellation
\* every selected algorithm was attempted, and each is accounted for exactly once, by a ModelResult or
\* by a failure entry (number of results + number of failures = number of selected algorithms).
C18_LoopContinues ==
    /\ Len(train.results) + Cardinality(DOMAIN train.failures) = train.i
    /\ Cardinality(ResultNames) = Len(train.results)
    /\ ResultNames \cap DOMAIN train.failures = {}
    /\ ResultNames \cup DOMAIN train.failures = {context.algorithms[k] : k \in 1..train.i}
    /\ (TrainModelsEnded /\ ~TrainModelsCancelled) =>
           /\ train.i = n_algorithms
           /\ Len(train.results) + Cardinality(DOMAIN train.failures) = n_algorithms
           /\ ResultNames \cup DOMAIN train.failures = Range(context.algorithms)

\* the loop ended normally after the first algorithm failed in its fit and the second was trained
C18_Witness ==
    /\ TrainModelsEnded /\ ~TrainModelsCancelled
    /\ n_algorithms = 2
    /\ DOMAIN train.failures = {context.algorithms[1]}
    /\ err_log[1].message = "fit failed"
    /\ ResultNames = {context.algorithms[2]}

\* the training sequence of an algorithm that create_model accepts ended because its study had no
\* completed trial
EmptyStudyFailure(k) ==
    /\ err_log[k].message = "No trials are completed yet."
    /\ ~create_model_raises(installed, err_log[k].algorithm, config.problem_type)

\* C19 (as claimed): in a run without cancellation, an algorithm whose trials all failed is not recorded
\* as a failure on that account: optimize_hyperparameters returns an empty mapping and a default
\* estimator, which is then fitted and scored.
C19_EmptyStudyStillFitted == ~cancellation_check => \A k \in 1..Len(err_log) : ~EmptyStudyFailure(k)

(***************************************************************************)
(* Properties of create_trained_model (CtmSpec).                           *)
(***************************************************************************)
\* C16 (as claimed): the TrainedModel made from a TrainingResult carries the estimator, preprocessor,
\* feature names, class labels, target name, metrics, best algorithm name and problem type recorded in
\* that result, whatever the configuration of the pipeline it is made by, and the hyperparameters of
\* the first ranked entry; the result is left as it was.
C16_HandleFromResult ==
    trained_model.called =>
        /\ trained_model.model = result.model
        /\ trained_model.preprocessor = result.preprocessor
        /\ trained_model.feature_names = result.feature_names
        /\ trained_model.class_labels = result.class_labels
        /\ trained_model.target_column = result.target_column
        /\ trained_model.metrics = result.metrics
        /\ trained_model.best_model_name = result.best_model_name
        /\ trained_model.problem_type = result.problem_type
        /\ result.model_comparison # <<>> => trained_model.hyperparameters = result.model_comparison[1].hyperparameters
        /\ result \in CtmResults

(***************************************************************************)
(* Properties of optimize_hyperparameters (OptSpec).                       *)
(***************************************************************************)
\* C20: a failed trial does not end the search: the study holds one trial per call of the objective,
\* never more than config.n_trials, and optimize_hyperparameters ends only after exactly config.n_trials
\* trials were started; when it returns, the selected hyperparameters are those of a completed trial
\* whose value no completed trial exceeds, failed trials taking no part.
C20_SearchContinues ==
    /\ Len(opt.study) = opt.t /\ opt.t <= config.n_trials
    /\ opt.outcome # "running" => opt.t = config.n_trials
    /\ opt.outcome = "returned" =>
           /\ opt.best_trial \in 1..Len(opt.study)
           /\ opt.study[opt.best_trial].state = "COMPLETE"
           /\ opt.best_params = opt.study[opt.best_trial].params
           /\ \A k \in 1..Len(opt.study) : opt.study[k].state = "COMPLETE" => opt.study[k].value <= opt.study[opt.best_trial].value

\* no cancellation check; the first trial raised, the second completed and gave the hyperparameters
C20_Witness ==
    /\ ~cancellation_check
    /\ opt.outcome = "returned"
    /\ Len(opt.study) = 2
    /\ opt.study[1].state = "FAIL" /\ opt.study[2].state = "COMPLETE"
    /\ opt.best_trial = 2

\* C21 (as claimed): when optimize_hyperparameters returns, its hyperparameter set is that of the
\* completed trial of highest value, the earliest one when values tie, and its estimator is a newly
\* constructed, unfitted instance that carries that whole set.
C21_BestTrialAndFreshModel ==
    opt.outcome = "returned" =>
        /\ opt.best_trial \in completed(opt.study)
        /\ \A k \in completed(opt.study) :
               \/ opt.study[k].value < opt.study[opt.best_trial].value
               \/ (opt.study[k].value = opt.study[opt.best_trial].value /\ opt.best_trial <= k)
        /\ opt.best_params = opt.study[opt.best_trial].params
        /\ opt.best_model.fresh /\ ~opt.best_model.fitted
        /\ opt.best_model.params_of = opt.best_trial
        /\ opt.best_model.applied = trial_params(config.algorithm)

\* the step starts an iteration of the loop of train_models, or a trial of the study
StartsIteration == pc = "iteration" /\ train.i < n_algorithms /\ vars' # vars
StartsTrial == pc = "trial" /\ vars' # vars

\* C25: is_cancelled is called once at the start of each iteration of the training loop and once at the
\* start of each trial, and by no other step; a run is cancelled only by the answer of such a call, so
\* that once the last of them has answered no, the run is not cancelled: the stages before and after
\* training leave the poll record untouched and none of them ends the run as Cancelled.
C25_SuspensionPoints ==
    [][/\ (StartsIteration => polls'.iteration = polls.iteration + 1 /\ polls'.trial = polls.trial /\ polls'.last = "iteration")
       /\ (StartsTrial => polls'.trial = polls.trial + 1 /\ polls'.iteration = polls.iteration /\ polls'.last = "trial")
       /\ (polls' # polls => StartsIteration \/ StartsTrial)
       /\ (outcome' = "Cancelled" /\ outcome # "Cancelled" => (StartsIteration \/ StartsTrial) /\ polls'.cancelled)
       /\ (pc = "stage" /\ vars' # vars => polls' = polls /\ outcome' # "Cancelled")]_vars

\* a run with a cancellation check polled at iterations and trials and then completed
C25_Witness ==
    /\ cancellation_check /\ pc = "finished" /\ outcome = "returned"
    /\ polls.iteration >= 2 /\ polls.trial >= 2 /\ Len(executed) = 7

\* the events of the iterations of train_models, in the order of their emission: they name an algorithm
TrainingEvents == SelectSeq(events, LAMBDA e : e.current_model # "None")

\* the iteration poll of this run that answered yes, if any: it ended the run
IterationCancelled == IF outcome = "Cancelled" THEN 1 ELSE 0

\* C26: in the loop of train_models the cancellation check comes before the progress report, so an
\* iteration whose check answers yes emits nothing; every other started iteration emits exactly one
\* Training event, with the name of its algorithm and the pair (i, n); the k-th such event is that of the
\* k-th selected algorithm, whether or not earlier algorithms failed.
C26_TrainingEvents ==
    /\ Len(TrainingEvents) = polls.iteration - IterationCancelled
    /\ Len(TrainingEvents) <= n_algorithms
    /\ (pc \in {"trial", "fit"} => Len(TrainingEvents) = train.i + 1)
    /\ (pc = "iteration" /\ outcome = "running" => Len(TrainingEvents) = train.i)
    /\ \A k \in 1..Len(TrainingEvents) :
          /\ TrainingEvents[k].stage = "training"
          /\ TrainingEvents[k].current_model = context.algorithms[k]
          /\ TrainingEvents[k].models_completed = <<k - 1, n_algorithms>>

\* the second of two algorithms was started after the first had failed
C26_Witness ==
    /\ Len(TrainingEvents) = 2 /\ DOMAIN train.failures # {}
    /\ TrainingEvents[2].models_completed = <<1, 2>>

\* an iteration was cancelled at its start after another had run: it has no event
C26_WitnessCancelled == outcome = "Cancelled" /\ polls.iteration = 2 /\ Len(TrainingEvents) = 1

\* the stage value and fraction of the events that name no algorithm, as documented: the checkpoints of
\* the stages and of the orchestrator, and the terminal events of a failed or cancelled run
Checkpoints == {<<"initializing", Pct(0)>>, <<"preprocessing", Pct(5)>>, <<"preprocessing", Pct(8)>>, <<"preprocessing", Pct(10)>>,
                <<"algorithm_selection", Pct(15)>>, <<"training", Pct(20)>>, <<"evaluation", Pct(90)>>, <<"explainability", Pct(95)>>,
                <<"complete", Pct(100)>>, <<"failed", Pct(0)>>, <<"cancelled", Pct(0)>>}

\* C27: every event of every run carries a fraction between 0 and 1; the events that name no algorithm
\* carry one of the fixed fractions 0.00, 0.05, 0.08, 0.10, 0.15, 0.20, 0.90, 0.95, 1.00; the event of the
\* algorithm at index i of n carries 0.20 + 0.65 * i / n, which is at least 0.20 and below 0.85.
C27_ProgressFractions ==
    /\ \A k \in 1..Len(events) :
          /\ 0 <= events[k].progress /\ events[k].progress <= Unit
          /\ events[k].current_model = "None" => <<events[k].stage, events[k].progress>> \in Checkpoints
    /\ \A k \in 1..Len(TrainingEvents) :
          /\ n_algorithms * TrainingEvents[k].progress = n_algorithms * Pct(20) + Pct(65) * (k - 1)
          /\ Pct(20) <= TrainingEvents[k].progress /\ TrainingEvents[k].progress < Pct(85)

\* a failed run whose second algorithm of two was started: its event carries 0.525, the last event 0.0
C27_Witness ==
    /\ outcome = "Failed" /\ Len(TrainingEvents) = 2 /\ n_algorithms = 2
    /\ TrainingEvents[2].progress = Pct(20) + Pct(65) \div 2
    /\ Last(events).stage = "failed" /\ Last(events).progress = 0

\* C30: in every returned TrainingResult, of a classification or of a regression run, the test_score of
\* the metrics is the test_score of the first entry of the ranked model list.
C30_MetricsTestScore ==
    outcome = "returned" =>
        /\ result.model_comparison # <<>>
        /\ result.metrics.test_score = result.model_comparison[1].test_score
        /\ result.best_model_name = result.model_comparison[1].name

\* a regression run returned two ranked models of different scores, the better one trained second
C30_Witness ==
    /\ outcome = "returned" /\ config.problem_type = "regression"
    /\ Len(result.model_comparison) = 2
    /\ result.model_comparison[1].test_score > result.model_comparison[2].test_score
    /\ result.model_comparison[1].name = context.algorithms[2]
    /\ result.metrics.test_score = result.model_comparison[1].test_score

\* the same for a classification run
C30_WitnessClassification ==
    /\ outcome = "returned" /\ config.problem_type = "classification"
    /\ Len(result.model_comparison) = 2
    /\ result.model_comparison[1].test_score > result.model_comparison[2].test_score
    /\ result.metrics.test_score = result.model_comparison[1].test_score

(***************************************************************************)
(* Properties of the stages executed one by one (StepSpec)                 *)
(***************************************************************************)
\* AlgorithmSelectionStage built a DatasetInfo
InfoBuilt == calls.dataset_info # NoDatasetInfo

\* C33: a DatasetInfo is small below 1000 samples, medium from 1000 to 9999 and large from 10000 on; it
\* is high-dimensional exactly when its feature count is above 100 or above half its sample count; the
\* one AlgorithmSelectionStage builds holds the row and column counts of the training split.
C33_DatasetInfo ==
    InfoBuilt =>
        LET info == calls.dataset_info IN
        /\ info.n_samples = n_train_of(data.n_rows)
        /\ info.n_features = data.n_features
        /\ (size_category(info) = "small") = (info.n_samples < 1000)
        /\ (size_category(info) = "medium") = (1000 <= info.n_samples /\ info.n_samples <= 9999)
        /\ (size_category(info) = "large") = (info.n_samples >= 10000)
        /\ is_high_dimensional(info) = (info.n_features > 100 \/ 2 * info.n_features > info.n_samples)

\* a frame of 1200 rows is classified by its 960 training rows: small, where the frame itself is medium
C33_Witness ==
    /\ InfoBuilt /\ data.n_rows = 1200 /\ calls.dataset_info.n_samples = 960
    /\ size_category(calls.dataset_info) = "small"
    /\ size_category([calls.dataset_info EXCEPT !.n_samples = data.n_rows]) = "medium"

\* the thresholds are met from both sides
C33_WitnessMedium == InfoBuilt /\ calls.dataset_info.n_samples = 1000 /\ size_category(calls.dataset_info) = "medium"
C33_WitnessLarge == InfoBuilt /\ calls.dataset_info.n_samples = 10000 /\ size_category(calls.dataset_info) = "large"
C33_WitnessHalf == InfoBuilt /\ calls.dataset_info.n_samples = 32 /\ calls.dataset_info.n_features = 17 /\ is_high_dimensional(calls.dataset_info)

\* the k-th execution is a successful SplitStage and the next execution is SplitStage again
SplitTwice(k) ==
    /\ k + 1 <= Len(executed)
    /\ executed[k] = [stage |-> "SplitStage", status |-> "returned"]
    /\ executed[k + 1].stage = "SplitStage"

\* C40: after a successful Split the transformed arrays are no longer on the context, and Split executed
\* a second time on that context raises InvalidDataError instead of splitting again.
C40_SplitConsumes ==
    /\ (executed # <<>> /\ executed[Len(executed)] = [stage |-> "SplitStage", status |-> "returned"]
            => context.isset \cap {"_X_transformed", "_y_transformed"} = {})
    /\ \A k \in 1..Len(executed) :
            SplitTwice(k) => /\ executed[k + 1].status = "raised"
                             /\ error.type = "InvalidDataError"
                             /\ error.message = "Preprocessing stage must run before split"
                             /\ {"X_train", "X_test", "y_train", "y_test"} \subseteq context.isset

\* SplitStage returned, was executed again on the same context, and raised
C40_Witness == \E k \in 1..Len(executed) : SplitTwice(k) /\ executed[k + 1].status = "raised" /\ pc = "finished"

(***************************************************************************)
(* Properties of the stages after training (Spec)                          *)
(***************************************************************************)
\* C34: EvaluationStage and ExplainabilityStage leave the ranked ModelResult list and the best estimator
\* of the context as ModelTrainingStage set them, and the model_comparison of the returned
\* TrainingResult is the list train_models returned: same entries, same order, same field values.
C34_EvaluateExplainFrame ==
    [][/\ (AtStage("EvaluationStage") \/ AtStage("ExplainabilityStage"))
            => context'.model_results = context.model_results /\ context'.model = context.model
       /\ (outcome # "returned" /\ outcome' = "returned")
            => /\ result'.model_comparison = sort_results(train.results)
               /\ result'.model = best_model(train.models, sort_results(train.results))]_vars

\* a result is returned after both stages worked on a context that holds two ModelResults
C34_Witness ==
    /\ outcome = "returned"
    /\ Len(result.model_comparison) = 2
    /\ result.model_comparison[1].name # result.model_comparison[2].name
    /\ \E k \in 1..Len(executed) : executed[k] = [stage |-> "EvaluationStage", status |-> "returned"]
    /\ calls.explain_model = 1

\* the events of the three terminal stages
TerminalEvents == {k \in 1..Len(events) : events[k].stage \in {"complete", "failed", "cancelled"}}

\* C35: a run emits exactly one terminal event (Complete, Failed or Cancelled), as its last event;
\* Pipeline.train returns a TrainingResult exactly when that event is Complete, and a returned result has
\* success = true, a non-empty ranked model list and its metrics set; a Failed or Cancelled event carries
\* fraction 0.0, below a fraction reported before it.
C35_TerminalEvent ==
    /\ pc # "finished" => TerminalEvents = {} /\ result = NoResult
    /\ pc = "finished" =>
          /\ TerminalEvents = {Len(events)}
          /\ (outcome = "returned") = (events[Len(events)].stage = "complete")
          /\ (result # NoResult) = (events[Len(events)].stage = "complete")
          /\ outcome = "returned" =>
                /\ result.success
                /\ result.model_comparison # <<>>
                /\ Ranked(result.model_comparison)
                /\ "metrics" \in context.isset /\ result.metrics = context.metrics
                /\ events[Len(events)].progress = Unit
          /\ outcome # "returned" =>
                /\ outcome = (IF events[Len(events)].stage = "failed" THEN "Failed" ELSE "Cancelled")
                /\ events[Len(events)].progress = 0
                /\ \E k \in 1..(Len(events) - 1) : events[k].progress > 0

\* a run cancelled during training: fractions up to the iteration's, then Cancelled at 0.0
C35_Witness ==
    /\ pc = "finished" /\ outcome = "Cancelled"
    /\ events[Len(events)].stage = "cancelled"
    /\ events[Len(events) - 1].progress >= Pct(20)

\* a run that ends with Failed, and a run that returns
C35_WitnessFailed == pc = "finished" /\ outcome = "Failed" /\ events[Len(events)].stage = "failed" /\ Len(executed) = 6
C35_WitnessComplete == pc = "finished" /\ outcome = "returned" /\ events[Len(events)].stage = "complete" /\ result.success

\* C36: the reporter Pipeline builds carries no cancellation check, so is_cancelled() answers False at
\* every suspension point and the run never ends with Cancelled because of a cancellation request;
\* a run ends with Cancelled only when a stage raised CancelledError.
C36_NoCancellationCheck ==
    /\ ~cancellation_check => ~polls.cancelled /\ outcome # "Cancelled" /\ error.type # "CancelledError"
    /\ outcome = "Cancelled" => /\ error.type = "CancelledError"
                                /\ executed # <<>> /\ executed[Len(executed)].status = "raised"

\* a run with the reporter Pipeline builds passed suspension points of both kinds and ended
C36_Witness == ~cancellation_check /\ polls.iteration >= 2 /\ polls.trial >= 2 /\ pc = "finished" /\ outcome = "returned"

\* with a reporter that carries a check, the Train stage raises CancelledError and the run ends with Cancelled
C36_WitnessCancelled == cancellation_check /\ outcome = "Cancelled" /\ executed[Len(executed)] = [stage |-> "ModelTrainingStage", status |-> "raised"]

\* the run ended in the named stage, which raised
RaisedIn(name) == pc = "finished" /\ executed # <<>> /\ executed[Len(executed)] = [stage |-> name, status |-> "raised"]

\* C37: a stage that raises has written none of the fields it owns: after a failed Validate the feature
\* table, the target and the target name are unset; after a failed Split the four split arrays are
\* unset; after a failed or cancelled Train the best estimator and the ModelResult list are unset.
C37_NoPartialWrite ==
    /\ RaisedIn("ValidationStage") => context.isset \cap {"X", "y", "target_column"} = {} /\ context.target_column = "None"
    /\ RaisedIn("SplitStage") => context.isset \cap {"X_train", "X_test", "y_train", "y_test"} = {}
    /\ RaisedIn("ModelTrainingStage") => /\ context.isset \cap {"model", "model_results"} = {}
                                         /\ context.model = NoEstimator /\ context.model_results = <<>>

\* Train was cancelled at the start of an iteration, after an earlier algorithm had been trained
C37_Witness == RaisedIn("ModelTrainingStage") /\ outcome = "Cancelled" /\ Len(train.results) >= 1

\* Validate raised on the row count, after the target name had been resolved; Split raised; Train failed
C37_WitnessValidate == RaisedIn("ValidationStage") /\ error.message = "Data must have at least 10 samples"
C37_WitnessSplit == RaisedIn("SplitStage")
C37_WitnessTrainFailed == RaisedIn("ModelTrainingStage") /\ error.type = "TrainingFailedError"

(***************************************************************************)
(* Properties of the evaluation (EvalSpec)                                 *)
(***************************************************************************)
\* C39: in every returned TrainingResult the cv_score and the train_score of the metrics are 0.0,
\* whatever cross-validation and train scores the best ModelResult records; EvaluationStage sets the
\* test_score only.
C39_MetricsDefaults ==
    /\ "metrics" \in context.isset => context.metrics.cv_score = 0 /\ context.metrics.train_score = 0
    /\ outcome = "returned" => result.metrics.cv_score = 0 /\ result.metrics.train_score = 0

\* a result is returned whose best ModelResult records positive train and cross-validation scores
C39_Witness ==
    /\ outcome = "returned"
    /\ result.model_comparison[1].cv_score > 0 /\ result.model_comparison[1].train_score > 0
    /\ result.metrics.test_score > 0

(***************************************************************************)
(* Properties of two interleaved runs (TwoSpec).                           *)
(***************************************************************************)
\* the step suspends one run and resumes the other
Switching == other'.id # other.id

\* what a run has on its context and in its result follows from its own arguments and its own training
RunConsistent(cfg, d, ctx, tr, out, res) ==
    /\ "X_train" \in ctx.isset => ctx.n_train = n_train_of(d.n_rows) /\ ctx.n_features = d.n_features
    /\ "algorithms" \in ctx.isset =>
           ctx.algorithms = select_algorithms([n_samples |-> n_train_of(d.n_rows), n_features |-> d.n_features, problem_type |-> cfg.problem_type],
                                              get_available_algorithms(installed, cfg.problem_type), cfg.top_k_algorithms, cfg.enable_neural_networks)
    /\ "model_results" \in ctx.isset => ctx.model_results = sort_results(tr.results)
    /\ out = "returned" => res.model_comparison = ctx.model_results /\ res.problem_type = cfg.problem_type /\ res.model = ctx.model

\* C31: two runs whose steps interleave, started from one Pipeline or from two, do not interfere: a step
\* of one run changes nothing of the suspended run, of the configuration or of the registry; a run
\* resumes with the arguments, context, training state, result and outcome it was suspended with; and
\* what a run holds follows from its own arguments, as in a run that executes alone.
C31_NoInterference ==
    [][/\ installed' = installed
       /\ (~Switching => other' = other /\ config' = config /\ data' = data)
       /\ (Switching =>
              /\ config' = other.config /\ data' = other.data
              /\ context' = other.context /\ train' = other.train /\ executed' = other.executed
              /\ outcome' = other.outcome /\ error' = other.error /\ result' = other.result
              /\ other'.config = config /\ other'.data = data
              /\ other'.context = context /\ other'.train = train /\ other'.executed = executed
              /\ other'.outcome = outcome /\ other'.error = error /\ other'.result = result)
       /\ RunConsistent(config', data', context', train', outcome', result')
       /\ RunConsistent(other'.config, other'.data, other'.context, other'.train, other'.outcome, other'.result)]_vars

\* two runs of one Pipeline on different frames are both inside the training loop
C31_Witness ==
    /\ other.id # 0 /\ other.same_pipeline /\ other.data # data
    /\ pc = "fit" /\ other.pc = "fit" /\ train.i = 1 /\ other.train.i = 0
    /\ context.algorithms # other.context.algorithms

\* two runs of one Pipeline have ended, one with a result and one with an error
C31_WitnessEnded ==
    /\ other.id # 0 /\ other.same_pipeline
    /\ pc = "finished" /\ other.pc = "finished" /\ outcome = "returned" /\ other.outcome = "Failed"

(***************************************************************************)
(* Properties of the selection and training stages on any list of          *)
(* available algorithms (RegSpec).                                         *)
(***************************************************************************)
\* ModelTrainingStage ended on this run
TrainStageEnded == Len(executed) >= 5 /\ executed[5].status \in {"returned", "raised"}

\* the events train_models emits for an algorithm: they carry its name
PerAlgorithmEvents == {k \in 1..Len(events) : events[k].current_model # "None"}

\* C22: with no forced algorithm and no available algorithm, AlgorithmSelectionStage returns an empty
\* selection without error, and ModelTrainingStage then raises TrainingFailedError with an empty failure
\* map, nothing was trained (no result, no estimator, no trial, no cancellation poll) and no event
\* carries an algorithm.
C22_EmptySelection ==
    (config.algorithm = "None" /\ sel.available = <<>>) =>
        /\ (Len(executed) >= 4 => executed[4].status = "returned" /\ context.algorithms = <<>> /\ "algorithms" \in context.isset)
        /\ (Len(executed) >= 5 /\ executed[5].status = "running" => train = NewTrain)
        /\ (TrainStageEnded =>
               /\ executed[5].status = "raised"
               /\ error.type = "TrainingFailedError"
               /\ DOMAIN error.failures = {}
               /\ train = NewTrain
               /\ err_log = <<>>
               /\ polls = NoPolls
               /\ PerAlgorithmEvents = {}
               /\ outcome = "Failed")

\* the Train stage has failed on an empty selection
C22_Witness ==
    /\ config.algorithm = "None" /\ sel.available = <<>>
    /\ TrainStageEnded /\ error.type = "TrainingFailedError" /\ context.algorithms = <<>>

(***************************************************************************)
(* Properties of the stages on contexts with unset fields (StgSpec).       *)
(***************************************************************************)
\* the stage about to execute lacks a field it needs
StageLacksField == pc = "stage" /\ stage_idx <= Len(stages) /\ ~(Needs(stages[stage_idx]) \subseteq context.isset)

\* the step ends the run with InvalidDataError
FailsInvalidData == pc' = "finished" /\ error'.type = "InvalidDataError" /\ outcome' = "Failed" /\ stage_idx' = stage_idx

\* the step is the normal return of the stage at stage_idx
StageReturns == pc \in {"stage", "iteration"} /\ stage_idx <= Len(stages) /\ stage_idx' = stage_idx + 1

\* C23 (as claimed): a stage executed on a context that lacks a field it needs from an earlier stage fails
\* with InvalidDataError, whatever the configuration, and a stage that returns has set the fields it owns.
C23_StagePreconditions ==
    [][/\ (StageLacksField => FailsInvalidData)
       /\ (StageReturns => Owns(stages[stage_idx]) \subseteq context'.isset)]_vars

\* ExplainabilityStage is about to execute with explainability disabled
ExplainSkipped == pc = "stage" /\ stage_idx <= Len(stages) /\ stages[stage_idx] = "ExplainabilityStage" /\ ~config.enable_explainability

\* C23 (amended): the same, except that ExplainabilityStage with explainability disabled tests nothing: it
\* returns with the "disabled" result and without an event even when the model, the test split or the
\* preprocessor is unset.
C23_StagePreconditionsAmended ==
    [][/\ (StageLacksField /\ ~ExplainSkipped => FailsInvalidData)
       /\ (ExplainSkipped => StageReturns /\ context'.explainability = "disabled" /\ events' = events /\ pc' = "stage")
       /\ (StageReturns => Owns(stages[stage_idx]) \subseteq context'.isset)]_vars

\* a stage failed with InvalidDataError on a context that lacks the test split, another returned before it
C23_Witness ==
    /\ Len(executed) >= 2 /\ executed[1].status = "returned"
    /\ Last(executed).stage = "ModelTrainingStage" /\ Last(executed).status = "raised"
    /\ error.type = "InvalidDataError" /\ "X_test" \notin context.isset

(***************************************************************************)
(* Properties of _assess_overfitting (OvfSpec).                            *)
(***************************************************************************)
\* the computed gap against a decimal threshold given in hundredths
GapBelow(t) == ovf.gap.hundredths < t \/ (ovf.gap.hundredths = t /\ ovf.gap.rounded = -1)
GapEquals(t) == ovf.gap.hundredths = t /\ ovf.gap.rounded = 0

\* C28: the risk follows from the gap train score minus test score: low when the gap is below 0.05, every
\* negative gap included, medium when it is at least 0.05 and below 0.15, high otherwise; a gap of 0.04
\* gives low, 0.10 medium and 0.20 high.
C28_OverfittingRisk ==
    ovf.called =>
        /\ ovf.gap.hundredths = ovf.train_score - ovf.test_score
        /\ ovf.risk = "low" <=> GapBelow(5)
        /\ ovf.risk = "medium" <=> (~GapBelow(5) /\ GapBelow(15))
        /\ ovf.risk = "high" <=> ~GapBelow(15)
        /\ (ovf.gap.hundredths < 0 => ovf.risk = "low")
        /\ (ovf.gap.hundredths = 4 => ovf.risk = "low")
        /\ (ovf.gap.hundredths = 10 => ovf.risk = "medium")
        /\ (ovf.gap.hundredths = 20 => ovf.risk = "high")

\* the call was made on scores 0.10 apart
C28_Witness == ovf.called /\ ovf.gap.hundredths = 10 /\ ovf.risk = "medium"

\* C29 (as claimed): a gap equal to a threshold falls into the lower bucket: 0.05 gives low, 0.15 gives
\* medium.
C29_ThresholdLowerBucket ==
    ovf.called =>
        /\ (GapEquals(5) => ovf.risk = "low")
        /\ (GapEquals(15) => ovf.risk = "medium")

\* C29 (amended): a gap equal to a threshold falls into the upper bucket: 0.05 gives medium, 0.15 gives
\* high.
C29_ThresholdUpperBucket ==
    ovf.called =>
        /\ (GapEquals(5) => ovf.risk = "medium")
        /\ (GapEquals(15) => ovf.risk = "high")

\* the call was made on scores whose computed gap is the literal 0.15
C29_Witness == ovf.called /\ GapEquals(15) /\ ovf.risk = "high"

(***************************************************************************)
(* Properties of select_algorithms (SelSpec).                              *)
(***************************************************************************)
\* C9 (as claimed): the selection has exactly min(top_k, number of available algorithms) names, and
\* "neural_network" is absent when neural networks are disabled.
C9_SelectionLength ==
    sel.called =>
        /\ Len(sel.selected) = Min(sel.top_k, Len(sel.available))
        /\ (~sel.include_neural => ~In("neural_network", sel.selected))

\* the names select_algorithms may choose from: the distinct names of the available list, without
\* "neural_network" when neural networks are disabled
Selectable == {a \in Range(sel.available) : sel.include_neural \/ a # "neural_network"}

\* C9 (amended): the selection has exactly min(top_k, number of selectable names) names, and
\* "neural_network" is absent when neural networks are disabled.
C9_SelectionLengthAmended ==
    sel.called =>
        /\ Len(sel.selected) = Min(sel.top_k, Cardinality(Selectable))
        /\ (~sel.include_neural => ~In("neural_network", sel.selected))

\* neural networks disabled, "neural_network" in the available list, and the fill-up loop walked past it
C9_Witness ==
    /\ sel.called
    /\ ~sel.include_neural
    /\ Len(sel.available) >= 2 /\ sel.available[1] = "neural_network"
    /\ \E k \in 1..Len(sel.selected) : ~In(sel.selected[k], sel.priority)

IsTree(m) == m \in {"random_forest", "extra_trees", "xgboost", "lightgbm", "gradient_boosting"}
Before(x, y, s) == IndexOf(x, s) < IndexOf(y, s)

\* C10 (as claimed): for a high-dimensional dataset the walked priority list is the original one with
\* the tree-ensemble names first, any two tree names and any two non-tree names in their original
\* relative order; otherwise it is the original list.
C10_StableReorder ==
    sel.called =>
        LET orig == base_priority_list(sel.info) IN
        IF is_high_dimensional(sel.info)
        THEN /\ Range(sel.priority) = Range(orig) /\ Len(sel.priority) = Len(orig)
             /\ \A x, y \in Range(orig) :
                    /\ (IsTree(x) /\ ~IsTree(y)) => Before(x, y, sel.priority)
                    /\ (IsTree(x) = IsTree(y) /\ Before(x, y, orig)) => Before(x, y, sel.priority)
        ELSE sel.priority = orig

\* the names of the walked priority list that are among avail, in priority order
PriorityHits(avail) == SelectSeq(sel.priority, LAMBDA m : m \in avail)

\* the names of the available list that are among avail and not in the priority list, each once, in the
\* order of the available list
Remaining(avail) ==
    LET keep == {k \in 1..Len(sel.available) :
                    /\ sel.available[k] \in avail
                    /\ ~In(sel.available[k], sel.priority)
                    /\ \A j \in 1..(k - 1) : sel.available[j] # sel.available[k]}
        nth(n) == CHOOSE k \in keep : Cardinality({j \in keep : j < k}) = n - 1
    IN  [n \in 1..Cardinality(keep) |-> sel.available[nth(n)]]

\* the available priority names, then the remaining available names, cut at top_k names
ExpectedSelection(avail) ==
    LET full == PriorityHits(avail) \o Remaining(avail)
    IN  SubSeq(full, 1, Min(sel.top_k, Len(full)))

\* C32 (as claimed): the selection is the available names of the walked priority list in priority order,
\* followed, only if these are fewer than top_k, by the remaining names of the available list in the
\* order of that list, and it stops at top_k names.
C32_SelectionOrder == sel.called => sel.selected = ExpectedSelection(Range(sel.available))

\* C32 (amended): the same, where a name counts as available only if the neural-network setting admits
\* it: with neural networks disabled "neural_network" is passed over in both steps.
C32_SelectionOrderAmended == sel.called => sel.selected = ExpectedSelection(Selectable)

\* the priority names gave fewer than top_k names and the fill-up step added one, after passing over
\* names already chosen
C32_Witness ==
    /\ sel.called /\ Len(sel.selected) = sel.top_k /\ Len(sel.selected) >= 2
    /\ In(sel.selected[1], sel.priority) /\ ~In(Last(sel.selected), sel.priority)
    /\ In(sel.available[1], sel.priority)

\* C38: the selection never holds a name twice and holds only names of the available list, also when
\* the available list and the priority list overlap and the fill-up step runs.
C38_NoDuplicates ==
    sel.called =>
        /\ \A j, k \in 1..Len(sel.selected) : j # k => sel.selected[j] # sel.selected[k]
        /\ Range(sel.selected) \subseteq Range(sel.available)

\* the available list holds a priority name twice, and the fill-up step ran over it
C38_Witness ==
    /\ sel.called /\ Len(sel.available) = 3
    /\ sel.available[1] = sel.available[2] /\ In(sel.available[1], sel.priority)
    /\ ~In(sel.available[3], sel.priority) /\ In(sel.available[3], sel.selected)
    /\ sel.top_k > Len(sel.selected)

====
